---- MODULE Spec2Model ----
(***************************************************************************)
(* Verification model of doctagger (lazare-dev/classify-web).              *)
(*                                                                         *)
(*   SpecClient : ClassiAPI (app/api/classi_client.py) used by several     *)
(*                threads: rate window, lock, policy caches.               *)
(*   SpecLimiterFair : the threads call classify_text only, so that every  *)
(*                call goes through _wait_for_rate_limit, and every        *)
(*                thread is scheduled fairly.                              *)
(*   SpecFile   : process_file (app/processor/file_processor.py), the      *)
(*                single-file pipeline read -> classify -> tag.            *)
(*   SpecBatch  : BatchProcessor (app/processor/batch_processor.py), the   *)
(*                worker pool, the results queue and the collector loop.   *)
(*   SpecBatchFair : SpecBatch with every thread scheduled fairly.         *)
(*   SpecBatchReuse : process_directory called repeatedly on one           *)
(*                BatchProcessor instance.                                 *)
(*   SpecMeta   : TextTagger._tag_with_metadata_file                       *)
(*                (app/tagger/text_tagger.py), the metadata file written   *)
(*                beside a document and parsed again on the next call.     *)
(*   SpecDispatch : ReaderFactory.get_reader and TaggerFactory.get_tagger  *)
(*                (app/reader/reader_factory.py,                           *)
(*                app/tagger/tagger_factory.py) called for the same path.  *)
(*   SpecTagger : one tag_document call of PdfTagger, TextTagger or        *)
(*                OfficeTagger (app/tagger/), strategy by strategy, with   *)
(*                the temporary files and directories it creates.          *)
(*                                                                         *)
(* Python dicts are modelled as functions whose DOMAIN is the set of keys  *)
(* present; an absent key is what the specification calls a null field.    *)
(***************************************************************************)
EXTENDS Integers, Sequences, FiniteSets, TLC

(***************************************************************************)
(* Bounds of the model.                                                    *)
(***************************************************************************)
\* number of threads sharing one ClassiAPI instance
NumThreads == 2
\* total number of client calls started in one behaviour
MaxCalls == 3
\* max_requests_per_minute is drawn from 1..MaxRate
MaxRate == 2
\* the clock stops advancing at MaxTime (seconds)
MaxTime == 60
\* seconds the clock advances in one Tick
TickStep == 30
\* get_policies answers with at most MaxPolicies policies
MaxPolicies == 2
\* files in the directory, and the largest worker count tried
MaxFiles == 3
MaxWorkers == 2
\* tag names and tag values have at most MaxLen characters
MaxLen == 2
\* the files sniffed by get_tagger have at most MaxSample bytes
MaxSample == 5
\* process_directory is called again on an instance while the results it has
\* counted and the files of the next directory are at most MaxCounted together
MaxCounted == 3

(***************************************************************************)
(* Program constants.                                                      *)
(***************************************************************************)
\* the length of the rate window in seconds (classi_client.py:27,33)
Window == 60
\* bytes read for content sniffing (tagger_factory.py:72)
SampleSize == 512

Null == "null"
\* an optional attribute: None, or the value it holds (policies_cache, lines 16, 99)
None == <<>>
Some(v) == <<v>>
ValueOf(c) == c[1]
NoThread == 0
Threads == 1..NumThreads

(***************************************************************************)
(* Text: a string is a sequence of characters; " " is whitespace.          *)
(***************************************************************************)
Texts == {<<>>, <<" ">>, <<" ", "a", " ">>}

IsSpace(c) == c = " "

RECURSIVE lstrip(_)
lstrip(s) == IF s # <<>> /\ IsSpace(Head(s)) THEN lstrip(Tail(s)) ELSE s

RECURSIVE rstrip(_)
rstrip(s) ==
    IF s # <<>> /\ IsSpace(s[Len(s)]) THEN rstrip(SubSeq(s, 1, Len(s) - 1)) ELSE s

\* str.strip()
strip(s) == rstrip(lstrip(s))

\* an emptiness test that does not strip
IsEmptyTextUnstripped(text) == text = <<>>

\* `not text or len(text.strip()) == 0`
IsEmptyText(text) == text = <<>> \/ Len(strip(text)) = 0

(***************************************************************************)
(* Values exchanged with the classification service.                       *)
(***************************************************************************)
PolicyIdSeq == <<"p1", "p2", "p3", "p4">>
PolicyNameSeq == <<"A", "B", "C", "D">>

\* the i-th policy of the service
PolicyAt(i) == [id |-> PolicyIdSeq[i], name |-> PolicyNameSeq[i]]

\* the first n policies, in the service's order
PolicySeq(n) == [i \in 1..n |-> PolicyAt(i)]

PolicyIds == {"p1", "p2"}

\* payloads the policies endpoint may answer with (client level)
PolicyLists == {PolicySeq(1), PolicySeq(2)}

\* payloads the policy-by-id endpoint may answer with
PolicyDetails(id) == {[id |-> id, name |-> "N", detail |-> d] : d \in {"d1"}}

Match(id, conf) == [id |-> id, name |-> id, confidence |-> conf]

ZeroResult == [totalMatches |-> 0, matches |-> <<>>]

\* payloads the classification endpoint may answer with (client level)
ClientResponses == {[totalMatches |-> 1, matches |-> <<Match("m1", 1)>>]}

VARIABLES
    now,                      \* time.time()
    max_requests_per_minute,  \* ClassiAPI.max_requests_per_minute
    request_times,            \* ClassiAPI.request_times
    lock,                     \* ClassiAPI.lock: the thread holding it, or NoThread
    policies_cache,           \* ClassiAPI.policies_cache
    policy_cache,             \* ClassiAPI.policy_cache
    th,                       \* per thread: the call in progress and its position
    recorded,                 \* history: every timestamp ever appended to request_times
    net,                      \* history: requests sent to the policies endpoint, failures
    calls,                    \* history: number of calls started
    last,                     \* history: the call that returned last
    \* process_file
    fpc,                      \* position in process_file
    exists,                   \* the file is present in the file system
    no_tag,                   \* argument no_tag
    use_first_match,          \* argument use_first_match
    document_text,            \* local document_text
    policies,                 \* local policies
    idx,                      \* position of the policy loop (1-based)
    all_matches,              \* local all_matches
    result,                   \* local result, and the value returned
    classification,           \* local classification
    confidence,               \* local confidence
    tag_success,              \* local tag_success
    trace,                    \* history: the calls process_file made, with outcomes
    \* BatchProcessor
    dir_ok,                   \* directory_path exists and is a directory
    dir_files,                \* number of immediate files of the directory
    max_workers,              \* BatchProcessor.max_workers
    bpc,                      \* position in process_directory
    all_files,                \* local all_files
    processed_count,          \* local processed_count
    stats,                    \* BatchProcessor.stats
    results_queue,            \* BatchProcessor.results_queue
    pending,                  \* the executor's work queue: submitted, not yet started
    running,                  \* per pool thread: the file it works on, or NoFile
    returned,                 \* the value process_directory returned
    fate,                     \* history: per file, how its pipeline ended
    puts,                     \* history: per file, the items put on results_queue for it
    \* TextTagger
    tag_name,                 \* argument tag_name
    tag_value,                \* argument tag_value
    meta_file,                \* content of <file>.metadata, None while it does not exist
    meta_dict,                \* local meta_dict of the call that reads the file again
    mpc,                      \* position: start, tagged, failed, read
    \* ReaderFactory, TaggerFactory
    path,                     \* the file behind file_path: suffix, presence, bytes
    reader_out,               \* what get_reader(file_path) did
    tagger_out,               \* what get_tagger(file_path) did
    \* PdfTagger, TextTagger, OfficeTagger
    tagger,                   \* the class whose tag_document is called
    tfile,                    \* the document: suffix, presence
    sys_platform,             \* sys.platform
    HAS_WIN32COM,             \* office_tagger.py lines 12-17
    HAS_PYPDF2,               \* pdf_tagger.py lines 7-11
    tgpc,                     \* position in tag_document
    attempted,                \* the strategies run so far, in order, and how they ended
    temps,                    \* temporary files and directories that exist
    tag_ret                   \* what tag_document returned

clientVars == <<now, max_requests_per_minute, request_times, lock, policies_cache,
                policy_cache, th, recorded, net, calls, last>>

fileVars == <<fpc, exists, no_tag, use_first_match, document_text, policies, idx,
              all_matches, result, classification, confidence, tag_success, trace>>

batchVars == <<dir_ok, dir_files, max_workers, bpc, all_files, processed_count, stats,
               results_queue, pending, running, returned, fate, puts>>

tagVars == <<tag_name, tag_value, meta_file, meta_dict, mpc>>

dispatchVars == <<path, reader_out, tagger_out>>

taggerVars == <<tagger, tfile, sys_platform, HAS_WIN32COM, HAS_PYPDF2, tgpc,
                attempted, temps, tag_ret>>

vars == <<clientVars, fileVars, batchVars, tagVars, dispatchVars, taggerVars>>

(***************************************************************************)
(* ClassiAPI._wait_for_rate_limit                                          *)
(***************************************************************************)
\* line 27: [t for t in self.request_times if current_time - t < 60]
Prune(rt, cur) == SelectSeq(rt, LAMBDA t : cur - t < Window)

\* min(self.request_times)
MinOf(rt) == CHOOSE m \in {rt[i] : i \in 1..Len(rt)} : \A i \in 1..Len(rt) : m <= rt[i]

\* line 30
LimitReached(rt, max) == Len(rt) >= max

\* a limiter that never waits
WaitTimeNone(rt, cur) == 0

\* lines 32-33: wait_time = 60 - (current_time - oldest_time)
WaitTime(rt, cur) == Window - (cur - MinOf(rt))

IdleThread == [pc |-> "idle", op |-> "none", text |-> <<>>, pid |-> Null,
               wake |-> 0, stamped |-> FALSE, late |-> FALSE]

NewCall(op, text, pid, pc, late) ==
    [pc |-> pc, op |-> op, text |-> text, pid |-> pid, wake |-> 0,
     stamped |-> FALSE, late |-> late]

\* the record of a call that returns: what it was, what it did, what it returned
Returned(c, sent, ret) ==
    [op |-> c.op, text |-> c.text, pid |-> c.pid, stamped |-> c.stamped,
     late |-> c.late, sent |-> sent, ret |-> ret]

NoCall == Returned(IdleThread, FALSE, Null)

CanCall(t) == th[t].pc = "idle" /\ calls < MaxCalls

Ok(v) == [kind |-> "ok", val |-> v]
Raised == [kind |-> "raise"]

\* the clock advances
Tick ==
    /\ now + TickStep <= MaxTime
    /\ now' = now + TickStep
    /\ UNCHANGED <<max_requests_per_minute, request_times, lock, policies_cache,
                   policy_cache, th, recorded, net, calls, last>>
    /\ UNCHANGED <<fileVars, batchVars, tagVars, dispatchVars, taggerVars>>

\* lines 23-36 up to the sleep: take the lock, read the clock, prune, decide to wait
AcquireLock(t) ==
    /\ th[t].pc = "rl_lock"
    /\ lock = NoThread
    /\ lock' = t
    /\ LET pruned == Prune(request_times, now)
           wait == IF LimitReached(pruned, max_requests_per_minute)
                   THEN WaitTime(pruned, now) ELSE 0
       IN /\ request_times' = pruned
          /\ th' = [th EXCEPT ![t].pc = IF wait > 0 THEN "rl_sleep" ELSE "rl_append",
                              ![t].wake = IF wait > 0 THEN now + wait ELSE 0]
    /\ UNCHANGED <<now, max_requests_per_minute, policies_cache, policy_cache,
                   recorded, net, calls, last>>
    /\ UNCHANGED <<fileVars, batchVars, tagVars, dispatchVars, taggerVars>>

\* a sleep that gives the lock up
SleepUnlocked(t) ==
    /\ th[t].pc = "rl_sleep"
    /\ lock = t
    /\ lock' = NoThread
    /\ now' = IF now < th[t].wake THEN th[t].wake ELSE now
    /\ th' = [th EXCEPT ![t].pc = "rl_append", ![t].wake = 0]
    /\ UNCHANGED <<max_requests_per_minute, request_times, policies_cache,
                   policy_cache, recorded, net, calls, last>>
    /\ UNCHANGED <<fileVars, batchVars, tagVars, dispatchVars, taggerVars>>

\* line 36: time.sleep(wait_time), with the lock held; the clock is at least at
\* the wake-up time when the sleep returns
Sleep(t) ==
    /\ th[t].pc = "rl_sleep"
    /\ lock = t
    /\ now' = IF now < th[t].wake THEN th[t].wake ELSE now
    /\ th' = [th EXCEPT ![t].pc = "rl_append", ![t].wake = 0]
    /\ UNCHANGED <<max_requests_per_minute, request_times, lock, policies_cache,
                   policy_cache, recorded, net, calls, last>>
    /\ UNCHANGED <<fileVars, batchVars, tagVars, dispatchVars, taggerVars>>

\* an append after which the lock stays taken
RecordTimeKeepsLock(t) ==
    /\ th[t].pc = "rl_append"
    /\ lock = t
    /\ request_times' = Append(request_times, now)
    /\ recorded' = Append(recorded, now)
    /\ th' = [th EXCEPT ![t].pc = "after_rl", ![t].stamped = TRUE]
    /\ UNCHANGED <<now, max_requests_per_minute, lock, policies_cache, policy_cache,
                   net, calls, last>>
    /\ UNCHANGED <<fileVars, batchVars, tagVars, dispatchVars, taggerVars>>

\* line 39: self.request_times.append(time.time()), then the lock is released
RecordTime(t) ==
    /\ th[t].pc = "rl_append"
    /\ lock = t
    /\ request_times' = Append(request_times, now)
    /\ recorded' = Append(recorded, now)
    /\ lock' = NoThread
    /\ th' = [th EXCEPT ![t].pc = "after_rl", ![t].stamped = TRUE]
    /\ UNCHANGED <<now, max_requests_per_minute, policies_cache, policy_cache,
                   net, calls, last>>
    /\ UNCHANGED <<fileVars, batchVars, tagVars, dispatchVars, taggerVars>>

(***************************************************************************)
(* ClassiAPI.classify_text, get_policies, get_policy                       *)
(***************************************************************************)
\* line 80: self.policies_cache is not None
PoliciesCached(cache) == cache # None

\* line 109: policy_id in self.policy_cache
PolicyCached(cache, id) == id \in DOMAIN cache

\* lines 43-48: the rate limiter runs first, the empty-text test after it
classify_text_entry(text) == "rl_lock"

\* a get_policies that goes to the rate limiter without looking at the cache
get_policies_entry_uncached(cache) == "rl_lock"

\* lines 80-84: the cache is tested before the rate limiter runs
get_policies_entry(cache) == IF PoliciesCached(cache) THEN "hit" ELSE "rl_lock"

\* lines 109-113
get_policy_entry(cache, id) == IF PolicyCached(cache, id) THEN "hit" ELSE "rl_lock"

\* a thread calls classify_text(text, policy_id)
CallClassifyText(t, text, pid) ==
    /\ CanCall(t)
    /\ th' = [th EXCEPT ![t] = NewCall("classify_text", text, Null,
                                       classify_text_entry(text), FALSE)]
    /\ calls' = calls + 1
    /\ UNCHANGED <<now, max_requests_per_minute, request_times, lock, policies_cache,
                   policy_cache, recorded, net, last>>
    /\ UNCHANGED <<fileVars, batchVars, tagVars, dispatchVars, taggerVars>>

\* a thread calls get_policies()
CallGetPolicies(t) ==
    /\ CanCall(t)
    /\ th' = [th EXCEPT ![t] = NewCall("get_policies", <<>>, Null,
                                       get_policies_entry(policies_cache),
                                       PoliciesCached(policies_cache))]
    /\ calls' = calls + 1
    /\ UNCHANGED <<now, max_requests_per_minute, request_times, lock, policies_cache,
                   policy_cache, recorded, net, last>>
    /\ UNCHANGED <<fileVars, batchVars, tagVars, dispatchVars, taggerVars>>

\* a thread calls get_policy(policy_id)
CallGetPolicy(t, pid) ==
    /\ CanCall(t)
    /\ th' = [th EXCEPT ![t] = NewCall("get_policy", <<>>, pid,
                                       get_policy_entry(policy_cache, pid),
                                       pid \in DOMAIN policy_cache)]
    /\ calls' = calls + 1
    /\ UNCHANGED <<now, max_requests_per_minute, request_times, lock, policies_cache,
                   policy_cache, recorded, net, last>>
    /\ UNCHANGED <<fileVars, batchVars, tagVars, dispatchVars, taggerVars>>

\* lines 82 and 111: return the cached value
ReturnCached(t) ==
    /\ th[t].pc = "hit"
    /\ last' = Returned(th[t], FALSE,
                        IF th[t].op = "get_policies" THEN Ok(ValueOf(policies_cache))
                        ELSE Ok(policy_cache[th[t].pid]))
    /\ th' = [th EXCEPT ![t] = IdleThread]
    /\ UNCHANGED <<now, max_requests_per_minute, request_times, lock, policies_cache,
                   policy_cache, recorded, net, calls>>
    /\ UNCHANGED <<fileVars, batchVars, tagVars, dispatchVars, taggerVars>>

\* lines 46-48: empty text returns the zero result, no request is sent
ClassifyTextEmpty(t) ==
    /\ th[t].pc = "after_rl"
    /\ th[t].op = "classify_text"
    /\ IsEmptyText(th[t].text)
    /\ last' = Returned(th[t], FALSE, Ok(ZeroResult))
    /\ th' = [th EXCEPT ![t] = IdleThread]
    /\ UNCHANGED <<now, max_requests_per_minute, request_times, lock, policies_cache,
                   policy_cache, recorded, net, calls>>
    /\ UNCHANGED <<fileVars, batchVars, tagVars, dispatchVars, taggerVars>>

Payloads(op, pid) ==
    CASE op = "classify_text" -> ClientResponses
      [] op = "get_policies" -> PolicyLists
      [] op = "get_policy" -> PolicyDetails(pid)

CanRequest(t) ==
    /\ th[t].pc = "after_rl"
    /\ th[t].op = "classify_text" => ~IsEmptyText(th[t].text)

\* lines 60-71, 90-100, 119-127: the request succeeds; the policy calls cache it
RequestOk(t) ==
    /\ CanRequest(t)
    /\ \E payload \in Payloads(th[t].op, th[t].pid) :
          /\ last' = Returned(th[t], TRUE, Ok(payload))
          /\ policies_cache' = IF th[t].op = "get_policies" THEN Some(payload)
                               ELSE policies_cache
          /\ policy_cache' = IF th[t].op = "get_policy"
                             THEN [i \in DOMAIN policy_cache \cup {th[t].pid} |->
                                      IF i = th[t].pid THEN payload ELSE policy_cache[i]]
                             ELSE policy_cache
    /\ th' = [th EXCEPT ![t] = IdleThread]
    /\ net' = IF th[t].op = "get_policies" THEN [net EXCEPT !.policies = @ + 1] ELSE net
    /\ UNCHANGED <<now, max_requests_per_minute, request_times, lock, recorded, calls>>
    /\ UNCHANGED <<fileVars, batchVars, tagVars, dispatchVars, taggerVars>>

\* a failed get_policies that caches an empty list
RequestFailCaching(t) ==
    /\ CanRequest(t)
    /\ last' = Returned(th[t], TRUE, Raised)
    /\ th' = [th EXCEPT ![t] = IdleThread]
    /\ net' = IF th[t].op = "get_policies"
              THEN [net EXCEPT !.policies = @ + 1, !.failed = @ + 1] ELSE net
    /\ policies_cache' = IF th[t].op = "get_policies" THEN Some(<<>>) ELSE policies_cache
    /\ UNCHANGED <<now, max_requests_per_minute, request_times, lock,
                   policy_cache, recorded, calls>>
    /\ UNCHANGED <<fileVars, batchVars, tagVars, dispatchVars, taggerVars>>

\* lines 72-75, 101-104, 128-131: transport failure or non-2xx status: re-raised
RequestFail(t) ==
    /\ CanRequest(t)
    /\ last' = Returned(th[t], TRUE, Raised)
    /\ th' = [th EXCEPT ![t] = IdleThread]
    /\ net' = IF th[t].op = "get_policies"
              THEN [net EXCEPT !.policies = @ + 1, !.failed = @ + 1] ELSE net
    /\ UNCHANGED <<now, max_requests_per_minute, request_times, lock, policies_cache,
                   policy_cache, recorded, calls>>
    /\ UNCHANGED <<fileVars, batchVars, tagVars, dispatchVars, taggerVars>>

(***************************************************************************)
(* process_file (app/processor/file_processor.py)                          *)
(*                                                                         *)
(* Confidences are hundredths: 90 stands for 0.9 and 95 for 0.95.          *)
(***************************************************************************)
FileName == "doc"

Confs == {90, 95}

\* answers of classify_text for one policy: no match, one match, two matches,
\* and a body whose totalMatches is positive while matches is empty
FileResponses ==
    {ZeroResult, [totalMatches |-> 1, matches |-> <<>>]}
    \cup {[totalMatches |-> 1, matches |-> <<Match("m1", c)>>] : c \in Confs}
    \cup {[totalMatches |-> 2, matches |-> <<Match("m1", c), Match("m2", d)>>] :
             c \in Confs, d \in Confs}

\* dict[k] = v
Put(d, k, v) == [x \in DOMAIN d \cup {k} |-> IF x = k THEN v ELSE d[x]]

\* dict.get(k, default)
Get(d, k, default) == IF k \in DOMAIN d THEN d[k] ELSE default

Event(call, arg, out) == [call |-> call, arg |-> arg, out |-> out]

\* the first match instead of the one of highest confidence
HeadMatch(ms) == ms[1]

\* line 77: max(matches, key=lambda x: x['confidence']), the first maximum
RECURSIVE HighestMatch(_)
HighestMatch(ms) ==
    IF Len(ms) = 1 THEN ms[1]
    ELSE LET rest == HighestMatch(Tail(ms))
         IN IF ms[1].confidence >= rest.confidence THEN ms[1] ELSE rest

\* lines 79-86
MatchInfo(policy, res) ==
    LET highest_match == HighestMatch(res.matches)
    IN [policy_id |-> policy.id, policy_name |-> policy.name,
        match_id |-> highest_match.id, match_name |-> highest_match.name,
        confidence |-> highest_match.confidence, total_matches |-> res.totalMatches]

\* a policy loop that takes a failed call for a match of that policy
PolicyMatchesFailureCounts(policy, out) ==
    IF out.kind = "raise"
    THEN <<[policy_id |-> policy.id, policy_name |-> policy.name, match_id |-> "none",
            match_name |-> "none", confidence |-> 100, total_matches |-> 0]>>
    ELSE IF out.val.totalMatches > 0 /\ out.val.matches # <<>>
         THEN <<MatchInfo(policy, out.val)>>
         ELSE <<>>

\* lines 72-99 for one policy: the matches appended to all_matches (none when the
\* call raised, when totalMatches is 0, or when max() raised on an empty list)
PolicyMatches(policy, out) ==
    IF out.kind = "raise" THEN <<>>
    ELSE IF out.val.totalMatches > 0
         THEN IF out.val.matches = <<>> THEN <<>> ELSE <<MatchInfo(policy, out.val)>>
         ELSE <<>>

\* an insertion that puts m ahead of the elements of equal confidence
RECURSIVE InsertAheadOfEqual(_, _)
InsertAheadOfEqual(m, ms) ==
    IF ms = <<>> THEN <<m>>
    ELSE IF Head(ms).confidence > m.confidence
         THEN <<Head(ms)>> \o InsertAheadOfEqual(m, Tail(ms))
         ELSE <<m>> \o ms

\* list.sort(key=confidence, reverse=True) is stable: m goes behind every element
\* whose confidence is at least its own
RECURSIVE InsertByConfidence(_, _)
InsertByConfidence(m, ms) ==
    IF ms = <<>> THEN <<m>>
    ELSE IF Head(ms).confidence >= m.confidence
         THEN <<Head(ms)>> \o InsertByConfidence(m, Tail(ms))
         ELSE <<m>> \o ms

\* a sort that leaves the list as it is
SortNot(ms) == ms

\* line 113: all_matches.sort(key=lambda x: x['confidence'], reverse=True)
RECURSIVE SortByConfidence(_)
SortByConfidence(ms) ==
    IF ms = <<>> THEN <<>>
    ELSE InsertByConfidence(ms[Len(ms)], SortByConfidence(SubSeq(ms, 1, Len(ms) - 1)))

\* lines 105-118: all_matches after the selection (sorted in place in best-match
\* mode; result["matches"] is the same list object)
Selected(ms, first) == IF ms # <<>> /\ ~first THEN SortByConfidence(ms) ELSE ms

\* a "safe" outcome that carries a confidence of 0
ClassifySafeZero(res) == Put(Put(res, "classification", "safe"), "confidence", 0)

\* lines 128-131: no match: classification "safe", no confidence key
ClassifySafe(res) == Put(res, "classification", "safe")

\* lines 101-131
Classified(res, ms, first) ==
    LET sel == Selected(ms, first)
        base == Put(Put(res, "matches", sel), "matches_count", Len(sel))
    IN IF sel # <<>>
       THEN Put(Put(base, "classification", sel[1].policy_name),
                "confidence", sel[1].confidence)
       ELSE ClassifySafe(base)

\* a policy loop that asks the first policy only
PolicyLoopHeadOnly(pols, outs, first) ==
    IF pols = <<>> THEN <<>> ELSE PolicyMatches(pols[1], outs[1])

\* lines 68-99 as a function: all_matches after the loop over pols when the
\* call for pols[i] ends as outs[i]; in first-match mode the loop breaks at the
\* first FileMatch and the later answers are not asked for
PolicyLoop(pols, outs, first) ==
    LET RECURSIVE From(_, _)
        From(i, acc) ==
            IF i > Len(pols) THEN acc
            ELSE LET found == PolicyMatches(pols[i], outs[i])
                 IN  IF found # <<>> /\ first THEN acc \o found
                     ELSE From(i + 1, acc \o found)
    IN  From(1, <<>>)

\* an unreadable document reported as "safe"
UnreadableSafe(res, msg) == Put(Put(res, "error", msg), "classification", "safe")

\* lines 42-44 and 59-61
Unreadable(res, msg) == Put(Put(res, "error", msg), "classification", "unknown")

\* line 152
ErrorResult == [error |-> "Error processing file", file |-> FileName]

\* a tagging step that reports a failed tag as an error of the file
TaggedOrError(res, ok) == IF ok THEN Put(res, "tagged", ok) ELSE ErrorResult

\* lines 138 and 144: result["tagged"] = ...
Tagged(res, ok) == Put(res, "tagged", ok)

Running == fpc \notin {"parked", "returned", "raised"}

\* the file disappears while it is processed (a sibling worker's tagger removes
\* "<name>.meta" files, office_tagger.py lines 38-42)
FileVanishes ==
    /\ Running
    /\ exists
    /\ exists' = FALSE
    /\ UNCHANGED <<fpc, no_tag, use_first_match, document_text, policies, idx,
                   all_matches, result, classification, confidence, tag_success, trace>>
    /\ UNCHANGED <<clientVars, batchVars, tagVars, dispatchVars, taggerVars>>

\* lines 24-30: result = {file, timestamp}; file_path.stat() is outside the try
ProcessFileStart ==
    /\ fpc = "start"
    /\ result' = [file |-> FileName, timestamp |-> "ts"]
    /\ fpc' = IF exists THEN "get_reader" ELSE "raised"
    /\ UNCHANGED <<exists, no_tag, use_first_match, document_text, policies, idx,
                   all_matches, classification, confidence, tag_success, trace>>
    /\ UNCHANGED <<clientVars, batchVars, tagVars, dispatchVars, taggerVars>>

\* line 34: ReaderFactory.get_reader raises FileNotFoundError for a missing file,
\* which the outer handler (lines 148-152) turns into the error result
GetReader ==
    /\ fpc = "get_reader"
    /\ IF exists
       THEN fpc' = "read" /\ UNCHANGED result
       ELSE fpc' = "returned" /\ result' = ErrorResult
    /\ trace' = Append(trace, Event("get_reader", Null, IF exists THEN Ok(Null) ELSE Raised))
    /\ UNCHANGED <<exists, no_tag, use_first_match, document_text, policies, idx,
                   all_matches, classification, confidence, tag_success>>
    /\ UNCHANGED <<clientVars, batchVars, tagVars, dispatchVars, taggerVars>>

\* lines 38-61: read_document returns a text or raises
ReadDocument ==
    /\ fpc = "read"
    /\ \E out \in {Ok(text) : text \in IF exists THEN Texts ELSE {}} \cup {Raised} :
          /\ trace' = Append(trace, Event("read_document", Null, out))
          /\ IF out.kind = "raise"
             THEN /\ result' = Unreadable(result, "Failed to read document")
                  /\ fpc' = "returned"
                  /\ UNCHANGED document_text
             ELSE /\ document_text' = out.val
                  /\ IF IsEmptyText(out.val)
                     THEN /\ result' = Unreadable(result, "Document contains no readable text")
                          /\ fpc' = "returned"
                     ELSE /\ result' = Put(result, "text_length", Len(out.val))
                          /\ fpc' = "get_policies"
    /\ UNCHANGED <<exists, no_tag, use_first_match, policies, idx, all_matches,
                   classification, confidence, tag_success>>
    /\ UNCHANGED <<clientVars, batchVars, tagVars, dispatchVars, taggerVars>>

\* line 64: api.get_policies() returns the list or raises (outer handler)
GetPolicies ==
    /\ fpc = "get_policies"
    /\ \E out \in {Ok(PolicySeq(n)) : n \in 0..MaxPolicies} \cup {Raised} :
          /\ trace' = Append(trace, Event("get_policies", Null, out))
          /\ IF out.kind = "raise"
             THEN fpc' = "returned" /\ result' = ErrorResult /\ UNCHANGED policies
             ELSE fpc' = "classify" /\ policies' = out.val /\ UNCHANGED result
    /\ idx' = 1
    /\ all_matches' = <<>>
    /\ UNCHANGED <<exists, no_tag, use_first_match, document_text, classification,
                   confidence, tag_success>>
    /\ UNCHANGED <<clientVars, batchVars, tagVars, dispatchVars, taggerVars>>

\* a policy loop without the break of lines 92-93
ClassifyPolicyNoBreak ==
    /\ fpc = "classify"
    /\ idx <= Len(policies)
    /\ \E out \in {Ok(r) : r \in FileResponses} \cup {Raised} :
          /\ trace' = Append(trace, Event("classify_text", policies[idx].id, out))
          /\ all_matches' = all_matches \o PolicyMatches(policies[idx], out)
          /\ idx' = idx + 1
    /\ UNCHANGED <<fpc, exists, no_tag, use_first_match, document_text, policies,
                   result, classification, confidence, tag_success>>
    /\ UNCHANGED <<clientVars, batchVars, tagVars, dispatchVars, taggerVars>>

\* lines 71-99: one turn of the policy loop
ClassifyPolicy ==
    /\ fpc = "classify"
    /\ idx <= Len(policies)
    /\ \E out \in {Ok(r) : r \in FileResponses} \cup {Raised} :
          LET found == PolicyMatches(policies[idx], out)
          IN /\ trace' = Append(trace, Event("classify_text", policies[idx].id, out))
             /\ all_matches' = all_matches \o found
             /\ idx' = IF found # <<>> /\ use_first_match
                       THEN Len(policies) + 1 ELSE idx + 1
    /\ UNCHANGED <<fpc, exists, no_tag, use_first_match, document_text, policies,
                   result, classification, confidence, tag_success>>
    /\ UNCHANGED <<clientVars, batchVars, tagVars, dispatchVars, taggerVars>>

\* lines 101-131: the loop is over; classification and confidence are determined
DetermineClassification ==
    /\ fpc = "classify"
    /\ idx > Len(policies)
    /\ LET res == Classified(result, all_matches, use_first_match)
       IN /\ result' = res
          /\ all_matches' = res.matches
          /\ classification' = res.classification
          /\ confidence' = Get(res, "confidence", confidence)
    /\ fpc' = IF no_tag THEN "skip_tag" ELSE "get_tagger"
    /\ UNCHANGED <<exists, no_tag, use_first_match, document_text, policies, idx,
                   tag_success, trace>>
    /\ UNCHANGED <<clientVars, batchVars, tagVars, dispatchVars, taggerVars>>

\* lines 142-146: no_tag
SkipTagging ==
    /\ fpc = "skip_tag"
    /\ result' = Tagged(result, FALSE)
    /\ fpc' = "returned"
    /\ UNCHANGED <<exists, no_tag, use_first_match, document_text, policies, idx,
                   all_matches, classification, confidence, tag_success, trace>>
    /\ UNCHANGED <<clientVars, batchVars, tagVars, dispatchVars, taggerVars>>

\* line 136: TaggerFactory.get_tagger raises FileNotFoundError for a missing file
\* (tagger_factory.py lines 16-17); the outer handler returns the error result
GetTagger ==
    /\ fpc = "get_tagger"
    /\ IF exists
       THEN fpc' = "tag_document" /\ UNCHANGED result
       ELSE fpc' = "returned" /\ result' = ErrorResult
    /\ trace' = Append(trace, Event("get_tagger", Null, IF exists THEN Ok(Null) ELSE Raised))
    /\ UNCHANGED <<exists, no_tag, use_first_match, document_text, policies, idx,
                   all_matches, classification, confidence, tag_success>>
    /\ UNCHANGED <<clientVars, batchVars, tagVars, dispatchVars, taggerVars>>

\* a tagging step that passes a fixed value instead of the classification
TagDocumentFixedValue ==
    /\ fpc = "tag_document"
    /\ \E ok \in (IF exists THEN {TRUE} ELSE {}) \cup {FALSE} :
          /\ tag_success' = ok
          /\ result' = Tagged(result, ok)
          /\ trace' = Append(trace, Event("tag_document", "unknown", Ok(ok)))
    /\ fpc' = "returned"
    /\ UNCHANGED <<exists, no_tag, use_first_match, document_text, policies, idx,
                   all_matches, classification, confidence>>
    /\ UNCHANGED <<clientVars, batchVars, tagVars, dispatchVars, taggerVars>>

\* lines 137-146: tag_document returns True or False (False for a missing file)
TagDocument ==
    /\ fpc = "tag_document"
    /\ \E ok \in (IF exists THEN {TRUE} ELSE {}) \cup {FALSE} :
          /\ tag_success' = ok
          /\ result' = Tagged(result, ok)
          /\ trace' = Append(trace, Event("tag_document", classification, Ok(ok)))
    /\ fpc' = "returned"
    /\ UNCHANGED <<exists, no_tag, use_first_match, document_text, policies, idx,
                   all_matches, classification, confidence>>
    /\ UNCHANGED <<clientVars, batchVars, tagVars, dispatchVars, taggerVars>>

(***************************************************************************)
(* BatchProcessor (processor/batch_processor.py).  One call of             *)
(* process_directory on the instance __init__ has just built, which is how *)
(* web/routes.py lines 101-109 use the class.  The collector is the thread *)
(* of the caller; the pool threads run process_file_worker.  A poll of the *)
(* queue that times out (lines 99-101) changes nothing and is a stutter.   *)
(***************************************************************************)
NoFile == 0
Workers == 1..MaxWorkers
Files == 1..MaxFiles

\* the classification labels a pipeline may decide on (file_processor.py 126-131)
Labels == {"safe", "A"}

\* a pipeline whose "unknown" outcome carries no error
FileOutcomesBareUnknown(f) ==
    {Ok([file |-> f, classification |-> c, tagged |-> TRUE]) : c \in Labels}
        \cup {Ok([file |-> f, classification |-> "unknown"]),
              Ok([error |-> "Error processing file", file |-> f]),
              Raised}

\* what process_file does for file f, reduced to the keys the collector reads:
\* the normal return of line 146, the unreadable or empty document of lines
\* 44 and 61, the error return of line 152, and the exception that line 30
\* (stat, outside the try) lets escape
FileOutcomes(f) ==
    {Ok([file |-> f, classification |-> c, tagged |-> TRUE]) : c \in Labels}
        \cup {Ok([file |-> f, error |-> "Failed to read document",
                  classification |-> "unknown"]),
              Ok([error |-> "Error processing file", file |-> f]),
              Raised}

NoFate == [kind |-> "none"]

\* lines 25-31
NewStats == [total_files |-> 0, processed_files |-> 0,
             classification_results |-> [l \in {} |-> 0], errors |-> <<>>,
             start_time |-> "start"]

\* lines 35-43: the item the worker puts on the queue
WorkerItemBare(f, out) == IF out.kind = "raise" THEN [file |-> f] ELSE out.val

WorkerItem(f, out) ==
    IF out.kind = "raise" THEN [error |-> "Worker error", file |-> f] ELSE out.val

\* a worker that puts nothing when the pipeline raised
WorkerPutUnlessRaised(q, f, out) ==
    IF out.kind = "raise" THEN q ELSE Append(q, WorkerItem(f, out))

\* lines 37 and 43: self.results_queue.put(...)
WorkerPut(q, f, out) == Append(q, WorkerItem(f, out))

\* lines 82-91 with every result counted as processed
CollectCountAll(st, res) ==
    LET c == Get(res, "classification", "safe")
    IN  [st EXCEPT !.processed_files = @ + 1,
                   !.classification_results = Put(@, c, Get(@, c, 0) + 1),
                   !.errors = IF "error" \in DOMAIN res
                              THEN Append(@, [file |-> Get(res, "file", "Unknown"),
                                              error |-> res.error])
                              ELSE @]

\* a collector that counts a processed file without tallying its label
CollectNoTally(st, res) ==
    IF "error" \in DOMAIN res
    THEN [st EXCEPT !.errors = Append(@, [file |-> Get(res, "file", "Unknown"),
                                          error |-> res.error])]
    ELSE [st EXCEPT !.processed_files = @ + 1]

\* lines 82-91: the collector accounts for one result
CollectResult(st, res) ==
    IF "error" \in DOMAIN res
    THEN [st EXCEPT !.errors = Append(@, [file |-> Get(res, "file", "Unknown"),
                                          error |-> res.error])]
    ELSE LET c == Get(res, "classification", "safe")
         IN  [st EXCEPT !.processed_files = @ + 1,
                        !.classification_results = Put(@, c, Get(@, c, 0) + 1)]

\* lines 108-111
Finalized(st) ==
    Put(Put(st, "end_time", "end"), "processing_time_seconds", "end - start")

\* line 62: the immediate files, in the order glob yields them
Glob(n) == [i \in 1..n |-> i]

\* a missing directory noticed only after total_files was reset
DirectoryNotFoundLate ==
    /\ bpc = "start"
    /\ ~dir_ok
    /\ stats' = [stats EXCEPT !.total_files = 0, !.errors = <<[error |-> "Directory not found"]>>]
    /\ returned' = [error |-> "Directory not found"]
    /\ bpc' = "done"
    /\ UNCHANGED <<dir_ok, dir_files, max_workers, all_files, processed_count,
                   results_queue, pending, running, fate, puts>>
    /\ UNCHANGED <<clientVars, fileVars, tagVars, dispatchVars, taggerVars>>

\* lines 56-59: the path is no directory
DirectoryNotFound ==
    /\ bpc = "start"
    /\ ~dir_ok
    /\ returned' = [error |-> "Directory not found"]
    /\ bpc' = "done"
    /\ UNCHANGED <<dir_ok, dir_files, max_workers, all_files, processed_count, stats,
                   results_queue, pending, running, fate, puts>>
    /\ UNCHANGED <<clientVars, fileVars, tagVars, dispatchVars, taggerVars>>

\* a pool that validates its size only after the files were submitted
SubmitAllThenValidate ==
    /\ bpc = "start"
    /\ dir_ok
    /\ all_files' = Glob(dir_files)
    /\ stats' = [stats EXCEPT !.total_files = dir_files]
    /\ processed_count' = 0
    /\ pending' = Glob(dir_files)
    /\ bpc' = IF max_workers <= 0 THEN "raised" ELSE "collect"
    /\ UNCHANGED <<dir_ok, dir_files, max_workers, results_queue, running, returned,
                   fate, puts>>
    /\ UNCHANGED <<clientVars, fileVars, tagVars, dispatchVars, taggerVars>>

\* lines 61-73: enumerate, set total_files, build the pool and submit every
\* file; ThreadPoolExecutor raises ValueError for max_workers <= 0
SubmitAll ==
    /\ bpc = "start"
    /\ dir_ok
    /\ all_files' = Glob(dir_files)
    /\ stats' = [stats EXCEPT !.total_files = dir_files]
    /\ processed_count' = 0
    /\ IF max_workers <= 0
       THEN /\ bpc' = "raised"
            /\ pending' = pending
       ELSE /\ bpc' = "collect"
            /\ pending' = Glob(dir_files)
    /\ UNCHANGED <<dir_ok, dir_files, max_workers, results_queue, running, returned,
                   fate, puts>>
    /\ UNCHANGED <<clientVars, fileVars, tagVars, dispatchVars, taggerVars>>

\* a pool that starts a thread for a task whatever its size
WorkerTakeUnbounded(w) ==
    /\ running[w] = NoFile
    /\ pending # <<>>
    /\ running' = [running EXCEPT ![w] = Head(pending)]
    /\ pending' = Tail(pending)
    /\ UNCHANGED <<dir_ok, dir_files, max_workers, bpc, all_files, processed_count,
                   stats, results_queue, returned, fate, puts>>
    /\ UNCHANGED <<clientVars, fileVars, tagVars, dispatchVars, taggerVars>>

\* a pool that drops the task it takes from its work queue
WorkerTakeDrops(w) ==
    /\ w <= max_workers
    /\ running[w] = NoFile
    /\ pending # <<>>
    /\ pending' = Tail(pending)
    /\ UNCHANGED <<dir_ok, dir_files, max_workers, bpc, all_files, processed_count,
                   stats, results_queue, running, returned, fate, puts>>
    /\ UNCHANGED <<clientVars, fileVars, tagVars, dispatchVars, taggerVars>>

\* the executor hands the next submitted file to a free pool thread
WorkerTake(w) ==
    /\ w <= max_workers
    /\ running[w] = NoFile
    /\ pending # <<>>
    /\ running' = [running EXCEPT ![w] = Head(pending)]
    /\ pending' = Tail(pending)
    /\ UNCHANGED <<dir_ok, dir_files, max_workers, bpc, all_files, processed_count,
                   stats, results_queue, returned, fate, puts>>
    /\ UNCHANGED <<clientVars, fileVars, tagVars, dispatchVars, taggerVars>>

\* lines 33-44: process_file_worker runs the pipeline and puts one item
ProcessFileWorker(w) ==
    /\ running[w] # NoFile
    /\ \E out \in FileOutcomes(running[w]) :
          /\ results_queue' = WorkerPut(results_queue, running[w], out)
          /\ fate' = [fate EXCEPT ![running[w]] = out]
    /\ puts' = [puts EXCEPT ![running[w]] = @ + Len(results_queue') - Len(results_queue)]
    /\ running' = [running EXCEPT ![w] = NoFile]
    /\ UNCHANGED <<dir_ok, dir_files, max_workers, bpc, all_files, processed_count,
                   stats, pending, returned>>
    /\ UNCHANGED <<clientVars, fileVars, tagVars, dispatchVars, taggerVars>>

\* lines 76-97: the collector takes one result from the queue
Collect ==
    /\ bpc = "collect"
    /\ processed_count < Len(all_files)
    /\ results_queue # <<>>
    /\ stats' = CollectResult(stats, Head(results_queue))
    /\ results_queue' = Tail(results_queue)
    /\ processed_count' = processed_count + 1
    /\ UNCHANGED <<dir_ok, dir_files, max_workers, bpc, all_files, pending, running,
                   returned, fate, puts>>
    /\ UNCHANGED <<clientVars, fileVars, tagVars, dispatchVars, taggerVars>>

\* lines 76, 107-125: the loop ends, the with block waits for the pool threads,
\* the statistics are finalized and returned (the dict itself, not a copy)
ReturnStats ==
    /\ bpc = "collect"
    /\ ~(processed_count < Len(all_files))
    /\ pending = <<>>
    /\ \A w \in Workers : running[w] = NoFile
    /\ stats' = Finalized(stats)
    /\ returned' = Finalized(stats)
    /\ bpc' = "done"
    /\ UNCHANGED <<dir_ok, dir_files, max_workers, all_files, processed_count,
                   results_queue, pending, running, fate, puts>>
    /\ UNCHANGED <<clientVars, fileVars, tagVars, dispatchVars, taggerVars>>

\* process_directory is entered again on the same instance: self.stats and
\* self.results_queue are those of __init__ (lines 23-31) and are not reset,
\* the locals of lines 62-68 are new
ProcessDirectoryAgain ==
    /\ bpc = "done"
    /\ bpc' = "start"
    /\ dir_ok' \in BOOLEAN
    /\ dir_files' \in {n \in 0..MaxFiles :
                         stats.processed_files + Len(stats.errors) + n <= MaxCounted}
    /\ all_files' = <<>>
    /\ processed_count' = 0
    /\ returned' = [kind |-> "none"]
    /\ fate' = [f \in Files |-> NoFate]
    /\ puts' = [f \in Files |-> 0]
    /\ UNCHANGED <<max_workers, stats, results_queue, pending, running>>
    /\ UNCHANGED <<clientVars, fileVars, tagVars, dispatchVars, taggerVars>>

BatchParked ==
    /\ dir_ok = TRUE
    /\ dir_files = 0
    /\ max_workers = 1
    /\ bpc = "parked"
    /\ all_files = <<>>
    /\ processed_count = 0
    /\ stats = NewStats
    /\ results_queue = <<>>
    /\ pending = <<>>
    /\ running = [w \in Workers |-> NoFile]
    /\ returned = [kind |-> "none"]
    /\ fate = [f \in Files |-> NoFate]
    /\ puts = [f \in Files |-> 0]

ClientParked ==
    /\ now = 0
    /\ max_requests_per_minute = 1
    /\ request_times = <<>>
    /\ lock = NoThread
    /\ policies_cache = None
    /\ policy_cache = [i \in {} |-> Null]
    /\ th = [t \in Threads |-> IdleThread]
    /\ recorded = <<>>
    /\ net = [policies |-> 0, failed |-> 0]
    /\ calls = 0
    /\ last = NoCall

(***************************************************************************)
(* TextTagger._tag_with_metadata_file (tagger/text_tagger.py 80-121).      *)
(* The metadata file holds one "key: value" line per tag.  The only code   *)
(* that reads a tag back is the parse of lines 92-100, run by the next     *)
(* call on the same file.  A dict is a sequence of <<key, value>> pairs in *)
(* insertion order.                                                        *)
(***************************************************************************)
Chars == {"a", ":", " "}
NewLine == "\n"

\* the strings of at most n characters
RECURSIVE StringsUpTo(_)
StringsUpTo(n) ==
    IF n = 0 THEN {<<>>}
    ELSE LET shorter == StringsUpTo(n - 1)
         IN  shorter \cup {Append(t, c) : t \in {u \in shorter : Len(u) = n - 1}, c \in Chars}

TagStrings == StringsUpTo(MaxLen)

\* lines 108, 114: f"{key}: {value}\n"
FormatLine(key, value) == key \o <<":", " ">> \o value \o <<NewLine>>

\* str.splitlines() on a text whose only line break is "\n"
RECURSIVE SplitLines(_, _)
SplitLines(text, line) ==
    IF text = <<>> THEN (IF line = <<>> THEN <<>> ELSE <<line>>)
    ELSE IF Head(text) = NewLine THEN <<line>> \o SplitLines(Tail(text), <<>>)
    ELSE SplitLines(Tail(text), Append(line, Head(text)))

\* position of the first ':' of a line, 0 when there is none
RECURSIVE FirstColon(_, _)
FirstColon(line, i) ==
    IF i > Len(line) THEN 0
    ELSE IF line[i] = ":" THEN i
    ELSE FirstColon(line, i + 1)

\* position of key in the dict, 0 when absent
RECURSIVE KeyIndex(_, _, _)
KeyIndex(d, key, i) ==
    IF i > Len(d) THEN 0
    ELSE IF d[i][1] = key THEN i
    ELSE KeyIndex(d, key, i + 1)

\* d[key] = value
DictSet(d, key, value) ==
    LET i == KeyIndex(d, key, 1)
    IN  IF i = 0 THEN Append(d, <<key, value>>)
        ELSE [d EXCEPT ![i] = <<key, value>>]

\* lines 98-100: split at the first ':', strip both sides
ParseLine(d, line) ==
    LET i == FirstColon(line, 1)
    IN  IF i = 0 THEN d
        ELSE DictSet(d, strip(SubSeq(line, 1, i - 1)),
                        strip(SubSeq(line, i + 1, Len(line))))

\* lines 96-100
RECURSIVE ParseLines(_, _)
ParseLines(d, lines) ==
    IF lines = <<>> THEN d ELSE ParseLines(ParseLine(d, Head(lines)), Tail(lines))

ParseMetadata(content) == ParseLines(<<>>, SplitLines(content, <<>>))

\* lines 106-108
RECURSIVE WriteMetadata(_)
WriteMetadata(d) ==
    IF d = <<>> THEN <<>>
    ELSE FormatLine(Head(d)[1], Head(d)[2]) \o WriteMetadata(Tail(d))

\* lines 90-115: the content of the metadata file after the call
TaggedContent(old, name, value) ==
    IF old # None
    THEN WriteMetadata(DictSet(ParseMetadata(ValueOf(old)), name, value))
    ELSE FormatLine(name, value)

\* metadata files a previous run may have left beside the document
OldMetaFiles == {None, Some(FormatLine(<<"a">>, <<"a">>))}

\* lines 85-117: the call writes the metadata file and returns True
TagWithMetadataFile ==
    /\ mpc = "start"
    /\ meta_file' = Some(TaggedContent(meta_file, tag_name, tag_value))
    /\ mpc' = "tagged"
    /\ UNCHANGED <<tag_name, tag_value, meta_dict>>
    /\ UNCHANGED <<clientVars, fileVars, batchVars, dispatchVars, taggerVars>>

\* lines 119-121: opening the metadata file fails, the call returns False
TagWithMetadataFileFails ==
    /\ mpc = "start"
    /\ mpc' = "failed"
    /\ UNCHANGED <<tag_name, tag_value, meta_file, meta_dict>>
    /\ UNCHANGED <<clientVars, fileVars, batchVars, dispatchVars, taggerVars>>

\* lines 90-100 of the next call: the file is read and parsed again
ReadMetadataFile ==
    /\ mpc = "tagged"
    /\ meta_dict' = ParseMetadata(ValueOf(meta_file))
    /\ mpc' = "read"
    /\ UNCHANGED <<tag_name, tag_value, meta_file>>
    /\ UNCHANGED <<clientVars, fileVars, batchVars, dispatchVars, taggerVars>>

TagParked ==
    /\ tag_name = <<>>
    /\ tag_value = <<>>
    /\ meta_file = None
    /\ meta_dict = <<>>
    /\ mpc = "parked"

(***************************************************************************)
(* ReaderFactory.get_reader (reader/reader_factory.py) and                 *)
(* TaggerFactory.get_tagger (tagger/tagger_factory.py).  A MIME type is    *)
(* the pair <<type, subtype>>, <<>> when mimetypes.guess_type knows none;  *)
(* it is a function of the suffix.  Of the suffix and MIME lists of the    *)
(* code the model keeps the entries that its files use.                    *)
(***************************************************************************)
\* mimetypes.guess_type for the suffixes of the model (the standard table)
MimeOf(ext) ==
    CASE ext = ".txt" -> <<"text", "plain">>
      [] ext = ".ics" -> <<"text", "calendar">>
      [] ext = ".json" -> <<"application", "json">>
      [] ext = ".pdf" -> <<"application", "pdf">>
      [] ext = ".docx" -> <<"application", "wordprocessingml.document">>
      [] ext = ".doc" -> <<"application", "msword">>
      [] ext = ".pps" -> <<"application", "vnd.ms-powerpoint">>
      [] ext = ".bin" -> <<"application", "octet-stream">>
      [] OTHER -> <<>>

Suffixes == {".txt", ".ics", ".json", ".pdf", ".docx", ".doc", ".pps", ".bin", ".dat"}

\* tagger_factory.py lines 44-46
TaggerIsText(ext, mime) ==
    \/ ext \in {".txt", ".json"}
    \/ mime # <<>> /\ (mime[1] = "text" \/ mime \in {<<"application", "json">>})

\* tagger_factory.py line 51, reader_factory.py line 21
IsPdf(ext, mime) == ext = ".pdf" \/ mime = <<"application", "pdf">>

\* tagger_factory.py lines 56-63
TaggerIsOffice(ext, mime) ==
    \/ ext \in {".docx", ".doc"}
    \/ mime \in {<<"application", "wordprocessingml.document">>,
                 <<"application", "msword">>, <<"application", "vnd.ms-powerpoint">>}

\* reader_factory.py lines 23-27
ReaderIsOffice(ext, mime) ==
    \/ mime \in {<<"application", "wordprocessingml.document">>}
    \/ ext \in {".docx", ".doc"}

\* tagger_factory.py line 74: 32 <= b <= 126 or b in (9, 10, 13)
IsPrintable(b) == (32 <= b /\ b <= 126) \/ b \in {9, 10, 13}

\* f.read(512)
Header(content) ==
    SubSeq(content, 1, IF Len(content) < SampleSize THEN Len(content) ELSE SampleSize)

\* a sniff whose division is not guarded
SniffUnguarded(p) ==
    LET header == Header(p.content)
        ascii_chars == Len(SelectSeq(header, IsPrintable))
    IN  IF ~p.openable THEN "OfficeTagger"
        ELSE IF Len(header) = 0 THEN "ZeroDivisionError"
        ELSE IF 5 * ascii_chars > 4 * Len(header) THEN "TextTagger"
        ELSE "OfficeTagger"

\* tagger_factory.py lines 70-83: ascii_chars / len(header) > 0.8, which for
\* integers is 5 * ascii_chars > 4 * len(header); a file that cannot be opened
\* and the division by zero for an empty file end in the except clause
Sniff(p) ==
    LET header == Header(p.content)
        ascii_chars == Len(SelectSeq(header, IsPrintable))
    IN  IF p.openable /\ Len(header) > 0 /\ 5 * ascii_chars > 4 * Len(header)
        THEN "TextTagger" ELSE "OfficeTagger"

\* reader_factory.py lines 15-31
get_reader(p) ==
    LET mime_type == MimeOf(p.ext)
    IN  IF ~p.exists THEN "FileNotFoundError"
        ELSE IF IsPdf(p.ext, mime_type) THEN "PdfReader"
        ELSE IF ReaderIsOffice(p.ext, mime_type) THEN "OfficeReader"
        ELSE "TextReader"

\* tagger_factory.py lines 16-83
get_tagger(p) ==
    LET mime_type == MimeOf(p.ext)
    IN  IF ~p.exists THEN "FileNotFoundError"
        ELSE IF TaggerIsText(p.ext, mime_type) THEN "TextTagger"
        ELSE IF IsPdf(p.ext, mime_type) THEN "PdfTagger"
        ELSE IF TaggerIsOffice(p.ext, mime_type) THEN "OfficeTagger"
        ELSE Sniff(p)

\* the bytes of the model's files: LF, '~', DEL
Bytes == {10, 126, 127}

RECURSIVE Contents(_)
Contents(n) ==
    IF n = 0 THEN {<<>>}
    ELSE LET shorter == Contents(n - 1)
         IN  shorter \cup {Append(c, b) : c \in {u \in shorter : Len(u) = n - 1}, b \in Bytes}

\* process_file line 34
CallGetReader ==
    /\ reader_out = "none"
    /\ reader_out' = get_reader(path)
    /\ UNCHANGED <<path, tagger_out>>
    /\ UNCHANGED <<clientVars, fileVars, batchVars, tagVars, taggerVars>>

\* process_file line 136
CallGetTagger ==
    /\ tagger_out = "none"
    /\ tagger_out' = get_tagger(path)
    /\ UNCHANGED <<path, reader_out>>
    /\ UNCHANGED <<clientVars, fileVars, batchVars, tagVars, taggerVars>>

DispatchParked ==
    /\ path = [ext |-> ".txt", exists |-> TRUE, openable |-> TRUE, content |-> <<>>]
    /\ reader_out = "parked"
    /\ tagger_out = "parked"

(***************************************************************************)
(* tag_document of PdfTagger (tagger/pdf_tagger.py), TextTagger            *)
(* (tagger/text_tagger.py) and OfficeTagger (tagger/office_tagger.py).     *)
(* Whether a file operation succeeds is the environment's choice; temps    *)
(* holds the temporary artifacts of the call that exist on disk:           *)
(* "pdf_tmp" is '<file>.tmp', "named_tmp" the NamedTemporaryFile,          *)
(* "tmp_dir" the TemporaryDirectory.                                       *)
(***************************************************************************)
\* one strategy that was run, and whether it succeeded
Try(strategy, ok) == [strategy |-> strategy, ok |-> ok]

\* return value of tag_document
ReturnTag(value) ==
    /\ tag_ret' = value
    /\ tgpc' = "done"

TaggerStatic == <<tagger, tfile, sys_platform, HAS_WIN32COM, HAS_PYPDF2>>

\* pdf_tagger.py lines 18-46: without PyPDF2 False; PdfReader, the page copy
\* and the metadata may raise, and do for a file that is not there
PdfTagStart ==
    /\ tgpc = "start"
    /\ tagger = "PdfTagger"
    /\ IF ~HAS_PYPDF2
       THEN ReturnTag("False") /\ UNCHANGED attempted
       ELSE \E ok \in {b \in BOOLEAN : b => tfile.exists} :
               /\ attempted' = Append(attempted, Try("pdf_read", ok))
               /\ IF ok THEN tgpc' = "pdf_write" /\ UNCHANGED tag_ret
                  ELSE ReturnTag("False")
    /\ UNCHANGED <<TaggerStatic, temps>>
    /\ UNCHANGED <<clientVars, fileVars, batchVars, tagVars, dispatchVars>>

\* pdf_tagger.py lines 49-51: open(temp_path, 'wb') creates '<file>.tmp',
\* writer.write fills it; either may raise
PdfWriteTemp ==
    /\ tgpc = "pdf_write"
    /\ \E outcome \in {"open_raises", "write_raises", "written"} :
          /\ temps' = IF outcome = "open_raises" THEN temps ELSE temps \cup {"pdf_tmp"}
          /\ IF outcome = "written" THEN tgpc' = "pdf_replace" /\ UNCHANGED tag_ret
             ELSE ReturnTag("False")
    /\ UNCHANGED <<TaggerStatic, attempted>>
    /\ UNCHANGED <<clientVars, fileVars, batchVars, tagVars, dispatchVars>>

\* pdf_tagger.py lines 55-63: os.remove, then shutil.move of the temporary
\* file onto the original; the except clause returns False and removes nothing
PdfReplace ==
    /\ tgpc = "pdf_replace"
    /\ \E outcome \in {"remove_raises", "move_raises", "moved"} :
          IF outcome = "moved"
          THEN temps' = temps \ {"pdf_tmp"} /\ ReturnTag("True")
          ELSE UNCHANGED temps /\ ReturnTag("False")
    /\ UNCHANGED <<TaggerStatic, attempted>>
    /\ UNCHANGED <<clientVars, fileVars, batchVars, tagVars, dispatchVars>>

\* a tag_document that goes on to the next strategies after one succeeded
TextTagStartGoesOn ==
    /\ tgpc = "start"
    /\ tagger = "TextTagger"
    /\ IF ~tfile.exists
       THEN ReturnTag("False") /\ UNCHANGED attempted
       ELSE LET ads == IF sys_platform = "win32" THEN <<"ads">> ELSE <<>>
                comments == IF tfile.ext \in {".py"} THEN <<"comments">> ELSE <<>>
                chain == ads \o <<"metadata_file">> \o comments
            IN  \E n \in 1..Len(chain), succeeds \in BOOLEAN :
                  /\ attempted' = attempted \o
                        [i \in 1..Len(chain) |-> Try(chain[i], succeeds /\ i = n)]
                  /\ IF succeeds THEN ReturnTag("True")
                     ELSE tgpc' = "binary_marker" /\ UNCHANGED tag_ret
    /\ UNCHANGED <<TaggerStatic, temps>>
    /\ UNCHANGED <<clientVars, fileVars, batchVars, tagVars, dispatchVars>>

\* text_tagger.py lines 18-51: the strategies in order, ADS on win32 only and
\* the comment header for code suffixes only; the first that succeeds returns
\* True, "none" is all of them failing
TextTagStart ==
    /\ tgpc = "start"
    /\ tagger = "TextTagger"
    /\ IF ~tfile.exists
       THEN ReturnTag("False") /\ UNCHANGED attempted
       ELSE LET ads == IF sys_platform = "win32" THEN <<"ads">> ELSE <<>>
                comments == IF tfile.ext \in {".py"} THEN <<"comments">> ELSE <<>>
                chain == ads \o <<"metadata_file">> \o comments
            IN  \E n \in 1..Len(chain), succeeds \in BOOLEAN :
                  /\ ~succeeds => n = Len(chain)
                  /\ attempted' = attempted \o
                        [i \in 1..n |-> Try(chain[i], succeeds /\ i = n)]
                  /\ IF succeeds THEN ReturnTag("True")
                     ELSE tgpc' = "binary_marker" /\ UNCHANGED tag_ret
    /\ UNCHANGED <<TaggerStatic, temps>>
    /\ UNCHANGED <<clientVars, fileVars, batchVars, tagVars, dispatchVars>>

\* text_tagger.py lines 220-259: the read may raise, the marker may be there
\* already; NamedTemporaryFile(delete=False) stays on disk when a write to it
\* or shutil.move raises, the except clause returns False
TagWithBinaryMarker ==
    /\ tgpc = "binary_marker"
    /\ \E outcome \in {"read_raises", "marker_exists", "create_raises",
                       "write_raises", "move_raises", "moved"} :
          /\ attempted' = Append(attempted,
                                 Try("binary_marker", outcome \in {"marker_exists", "moved"}))
          /\ temps' = IF outcome \in {"write_raises", "move_raises"}
                      THEN temps \cup {"named_tmp"} ELSE temps
          /\ ReturnTag(IF outcome \in {"marker_exists", "moved"} THEN "True" ELSE "False")
    /\ UNCHANGED TaggerStatic
    /\ UNCHANGED <<clientVars, fileVars, batchVars, tagVars, dispatchVars>>

\* office_tagger.py lines 27-55
OfficeTagStart ==
    /\ tgpc = "start"
    /\ tagger = "OfficeTagger"
    /\ IF ~tfile.exists THEN ReturnTag("False")
       ELSE /\ tgpc' = IF tfile.ext \in {".docx"} THEN "office_document"
                       ELSE IF tfile.ext \in {".doc"} /\ HAS_WIN32COM THEN "office_app"
                       ELSE "multiple_methods"
            /\ UNCHANGED tag_ret
    /\ UNCHANGED <<TaggerStatic, attempted, temps>>
    /\ UNCHANGED <<clientVars, fileVars, batchVars, tagVars, dispatchVars>>

\* office_tagger.py lines 61-171: all the work is inside
\* "with tempfile.TemporaryDirectory()".  When updated_core stays False the
\* fallback is called at line 143 with the directory still there; an exception
\* leaves the with block, which removes the directory, and the fallback is
\* called at line 171
TagOfficeDocument ==
    /\ tgpc = "office_document"
    /\ \E outcome \in {"rewritten", "not_updated", "raises"} :
          /\ attempted' = Append(attempted, Try("office_document", outcome = "rewritten"))
          /\ CASE outcome = "rewritten" -> UNCHANGED temps /\ ReturnTag("True")
               [] outcome = "not_updated" ->
                     /\ temps' = temps \cup {"tmp_dir"}
                     /\ tgpc' = "multiple_methods"
                     /\ UNCHANGED tag_ret
               [] outcome = "raises" ->
                     /\ tgpc' = "multiple_methods"
                     /\ UNCHANGED <<temps, tag_ret>>
    /\ UNCHANGED TaggerStatic
    /\ UNCHANGED <<clientVars, fileVars, batchVars, tagVars, dispatchVars>>

\* office_tagger.py lines 173-293: True when the automation saved the
\* document, otherwise False at line 287 or 291
TagWithOfficeApp ==
    /\ tgpc = "office_app"
    /\ \E saved \in BOOLEAN :
          /\ attempted' = Append(attempted, Try("office_app", saved))
          /\ ReturnTag(IF saved THEN "True" ELSE "False")
    /\ UNCHANGED <<TaggerStatic, temps>>
    /\ UNCHANGED <<clientVars, fileVars, batchVars, tagVars, dispatchVars>>

\* office_tagger.py lines 295-334: ADS on win32, then the marker appended in
\* place; a call from line 143 returns through the end of the with block, which
\* removes the temporary directory
TagWithMultipleMethods ==
    /\ tgpc = "multiple_methods"
    /\ \E outcome \in {"ads", "marker", "raises"} :
          /\ outcome = "ads" => sys_platform = "win32"
          /\ attempted' = Append(attempted, Try("multiple_methods", outcome # "raises"))
          /\ ReturnTag(IF outcome = "raises" THEN "False" ELSE "True")
    /\ temps' = temps \ {"tmp_dir"}
    /\ UNCHANGED TaggerStatic
    /\ UNCHANGED <<clientVars, fileVars, batchVars, tagVars, dispatchVars>>

TaggerParked ==
    /\ tagger = "TextTagger"
    /\ tfile = [ext |-> ".txt", exists |-> TRUE]
    /\ sys_platform = "linux"
    /\ HAS_WIN32COM = FALSE
    /\ HAS_PYPDF2 = FALSE
    /\ tgpc = "parked"
    /\ attempted = <<>>
    /\ temps = {}
    /\ tag_ret = "none"

FileParked ==
    /\ fpc = "parked"
    /\ exists = TRUE
    /\ no_tag = FALSE
    /\ use_first_match = FALSE
    /\ document_text = <<>>
    /\ policies = <<>>
    /\ idx = 1
    /\ all_matches = <<>>
    /\ result = [file |-> FileName]
    /\ classification = Null
    /\ confidence = Null
    /\ tag_success = Null
    /\ trace = <<>>

InitClient ==
    /\ now = 0
    /\ max_requests_per_minute \in 1..MaxRate
    /\ request_times = <<>>
    /\ lock = NoThread
    /\ policies_cache = None
    /\ policy_cache = [i \in {} |-> Null]
    /\ th = [t \in Threads |-> IdleThread]
    /\ recorded = <<>>
    /\ net = [policies |-> 0, failed |-> 0]
    /\ calls = 0
    /\ last = NoCall
    /\ FileParked
    /\ BatchParked
    /\ TagParked
    /\ DispatchParked
    /\ TaggerParked

NextClient ==
    \/ Tick
    \/ \E t \in Threads : \E text \in Texts : \E pid \in PolicyIds :
          CallClassifyText(t, text, pid)
    \/ \E t \in Threads : CallGetPolicies(t)
    \/ \E t \in Threads : \E pid \in PolicyIds : CallGetPolicy(t, pid)
    \/ \E t \in Threads : AcquireLock(t)
    \/ \E t \in Threads : Sleep(t)
    \/ \E t \in Threads : RecordTime(t)
    \/ \E t \in Threads : ReturnCached(t)
    \/ \E t \in Threads : ClassifyTextEmpty(t)
    \/ \E t \in Threads : RequestOk(t)
    \/ \E t \in Threads : RequestFail(t)

SpecClient == InitClient /\ [][NextClient]_vars

\* a thread that can take the lock, whose sleep is over or that can append
\* is scheduled; the threads make finitely many calls (MaxCalls)
FairClient ==
    \A t \in Threads :
        WF_vars(AcquireLock(t)) /\ WF_vars(Sleep(t)) /\ WF_vars(RecordTime(t))

\* the calls of the worker threads of a batch: classify_text for every policy
NextLimiter ==
    \/ Tick
    \/ \E t \in Threads : \E text \in Texts : \E pid \in PolicyIds :
          CallClassifyText(t, text, pid)
    \/ \E t \in Threads : AcquireLock(t)
    \/ \E t \in Threads : Sleep(t)
    \/ \E t \in Threads : RecordTime(t)
    \/ \E t \in Threads : ClassifyTextEmpty(t)
    \/ \E t \in Threads : RequestOk(t)
    \/ \E t \in Threads : RequestFail(t)

SpecLimiterFair == InitClient /\ [][NextLimiter]_vars /\ FairClient

\* process_file is called for a file the caller has just seen
InitFile ==
    /\ fpc = "start"
    /\ exists = TRUE
    /\ no_tag \in BOOLEAN
    /\ use_first_match \in BOOLEAN
    /\ document_text = <<>>
    /\ policies = <<>>
    /\ idx = 1
    /\ all_matches = <<>>
    /\ result = [file |-> FileName]
    /\ classification = Null
    /\ confidence = Null
    /\ tag_success = Null
    /\ trace = <<>>
    /\ ClientParked
    /\ BatchParked
    /\ TagParked
    /\ DispatchParked
    /\ TaggerParked

NextFile ==
    \/ FileVanishes
    \/ ProcessFileStart
    \/ GetReader
    \/ ReadDocument
    \/ GetPolicies
    \/ ClassifyPolicy
    \/ DetermineClassification
    \/ SkipTagging
    \/ GetTagger
    \/ TagDocument

SpecFile == InitFile /\ [][NextFile]_vars

\* __init__ (lines 17-31), then process_directory is called once
InitBatch ==
    /\ dir_ok \in BOOLEAN
    /\ dir_files \in 0..MaxFiles
    /\ max_workers \in -1..MaxWorkers
    /\ bpc = "start"
    /\ all_files = <<>>
    /\ processed_count = 0
    /\ stats = NewStats
    /\ results_queue = <<>>
    /\ pending = <<>>
    /\ running = [w \in Workers |-> NoFile]
    /\ returned = [kind |-> "none"]
    /\ fate = [f \in Files |-> NoFate]
    /\ puts = [f \in Files |-> 0]
    /\ ClientParked
    /\ FileParked
    /\ TagParked
    /\ DispatchParked
    /\ TaggerParked

NextBatch ==
    \/ DirectoryNotFound
    \/ SubmitAll
    \/ \E w \in Workers : WorkerTake(w)
    \/ \E w \in Workers : ProcessFileWorker(w)
    \/ Collect
    \/ ReturnStats

SpecBatch == InitBatch /\ [][NextBatch]_vars

\* the main thread and every pool thread keep being scheduled, and a pipeline
\* that a pool thread runs terminates
FairBatch ==
    /\ WF_vars(DirectoryNotFound)
    /\ WF_vars(SubmitAll)
    /\ WF_vars(Collect)
    /\ WF_vars(ReturnStats)
    /\ \A w \in Workers : WF_vars(WorkerTake(w)) /\ WF_vars(ProcessFileWorker(w))

SpecBatchFair == SpecBatch /\ FairBatch

NextBatchReuse ==
    \/ NextBatch
    \/ ProcessDirectoryAgain

SpecBatchReuse == InitBatch /\ [][NextBatchReuse]_vars

\* tag_document is called with a tag name and a tag value
InitMeta ==
    /\ tag_name \in TagStrings
    /\ tag_value \in TagStrings
    /\ meta_file \in OldMetaFiles
    /\ meta_dict = <<>>
    /\ mpc = "start"
    /\ ClientParked
    /\ FileParked
    /\ BatchParked
    /\ DispatchParked
    /\ TaggerParked

NextMeta ==
    \/ TagWithMetadataFile
    \/ TagWithMetadataFileFails
    \/ ReadMetadataFile

SpecMeta == InitMeta /\ [][NextMeta]_vars

\* a path, and the file behind it if there is one
InitDispatch ==
    /\ path \in [ext : Suffixes, exists : BOOLEAN, openable : BOOLEAN,
                 content : Contents(MaxSample)]
    /\ path.exists \/ (path.openable /\ path.content = <<>>)
    /\ reader_out = "none"
    /\ tagger_out = "none"
    /\ ClientParked
    /\ FileParked
    /\ BatchParked
    /\ TagParked
    /\ TaggerParked

NextDispatch ==
    \/ CallGetReader
    \/ CallGetTagger

SpecDispatch == InitDispatch /\ [][NextDispatch]_vars

\* any tagger on any document: process_file passes what get_tagger returned,
\* other callers construct a tagger themselves; win32com exists on win32 only
InitTagger ==
    /\ tagger \in {"PdfTagger", "TextTagger", "OfficeTagger"}
    /\ tfile \in [ext : {".pdf", ".txt", ".py", ".docx", ".doc", ".dat"}, exists : BOOLEAN]
    /\ sys_platform \in {"win32", "linux"}
    /\ HAS_WIN32COM \in BOOLEAN
    /\ HAS_WIN32COM => sys_platform = "win32"
    /\ HAS_PYPDF2 \in BOOLEAN
    /\ tgpc = "start"
    /\ attempted = <<>>
    /\ temps = {}
    /\ tag_ret = "none"
    /\ ClientParked
    /\ FileParked
    /\ BatchParked
    /\ TagParked
    /\ DispatchParked

NextTagger ==
    \/ PdfTagStart
    \/ PdfWriteTemp
    \/ PdfReplace
    \/ TextTagStart
    \/ TagWithBinaryMarker
    \/ OfficeTagStart
    \/ TagOfficeDocument
    \/ TagWithOfficeApp
    \/ TagWithMultipleMethods

SpecTagger == InitTagger /\ [][NextTagger]_vars

(***************************************************************************)
(* Properties of ClassiAPI, checked under SpecClient.                      *)
(***************************************************************************)
\* the timestamps recorded in the window (t - 60, t]
InWindow(t) == {j \in 1..Len(recorded) : recorded[j] > t - Window /\ recorded[j] <= t}

\* C1: whatever the threads call and however they interleave, no 60-second
\* interval (taken, as line 27 takes it, to end at a timestamp and to exclude the
\* instant 60 seconds before it) holds more than max_requests_per_minute of the
\* timestamps recorded by _wait_for_rate_limit.
C1_RateWindowBound ==
    \A i \in 1..Len(recorded) :
        Cardinality(InWindow(recorded[i])) <= max_requests_per_minute

\* the limit was reached and the next timestamp was recorded after the oldest
\* one had left the window
C1_Witness ==
    /\ Len(recorded) > max_requests_per_minute
    /\ \E i, j \in 1..Len(recorded) : i < j /\ recorded[j] >= recorded[i] + Window
    /\ \E i, j \in 1..Len(recorded) : i < j /\ recorded[j] = recorded[i] + Window

C3_OnePoliciesRequest ==
    net.failed = 0 =>
        /\ net.policies <= 1
        /\ last.op = "get_policies" => net.policies = 1

\* C4: a get_policies (get_policy(id)) call made after a successful one returns
\* the cached value, sends nothing and leaves request_times unchanged.
C4_CachedCallsAreFree ==
    /\ [](\A t \in Threads : th[t].late => (th[t].pc = "hit" /\ ~th[t].stamped))
    /\ [](last.late => (~last.stamped /\ ~last.sent /\ last.ret.kind = "ok"))
    /\ [][\A t \in Threads :
            (th[t].late /\ th'[t].pc = "idle") =>
                /\ last'.ret = IF th[t].op = "get_policies" THEN Ok(ValueOf(policies_cache))
                               ELSE Ok(policy_cache[th[t].pid])
                /\ request_times' = request_times
                /\ recorded' = recorded
                /\ net' = net]_vars

\* a later get_policies call has returned the cached list
C4_Witness ==
    /\ last.op = "get_policies"
    /\ last.late
    /\ last.ret = Ok(ValueOf(policies_cache))
    /\ net.policies >= 1

\* thread t is at its network request and returns in this step
Requests(t) == th[t].pc = "after_rl" /\ th'[t].pc = "idle"

\* C19: a call whose request fails raises to its caller after that one
\* request, without touching policies_cache or policy_cache; as long as every
\* request to the policies endpoint has failed the cache is empty, so the next
\* get_policies call goes to the rate limiter and the network again.
C19_FailureIsRaisedOnceAndNotCached ==
    /\ [][\A t \in Threads :
            (Requests(t) /\ last'.ret.kind = "raise") =>
                /\ last'.sent /\ last'.op = th[t].op
                /\ policies_cache' = policies_cache
                /\ policy_cache' = policy_cache
                /\ request_times' = request_times
                /\ th[t].op = "get_policies" =>
                      (net'.policies = net.policies + 1 /\ net'.failed = net.failed + 1)]_vars
    /\ [](net.policies = net.failed => policies_cache = None)
    /\ [][\A t \in Threads :
            (th[t].pc = "idle" /\ th'[t].op = "get_policies" /\ policies_cache = None) =>
                th'[t].pc = "rl_lock"]_vars

\* a get_policies request failed and a later one succeeded
C19_Witness ==
    /\ net.failed >= 1
    /\ net.policies = net.failed + 1
    /\ last.op = "get_policies"
    /\ last.sent
    /\ last.ret.kind = "ok"
    /\ policies_cache = Some(last.ret.val)

\* C20: once policies_cache (policy_cache[id]) holds a value no step assigns it
\* again: a get_policies (get_policy) request returns successfully, and so
\* executes line 99 (126), only while the cache is still empty, and a cached
\* value never changes.
C20_CachesAreWrittenOnce ==
    [][/\ \A t \in Threads :
            (Requests(t) /\ last'.ret.kind = "ok") =>
                /\ th[t].op = "get_policies" => policies_cache = None
                /\ th[t].op = "get_policy" => th[t].pid \notin DOMAIN policy_cache
       /\ policies_cache # None => policies_cache' = policies_cache
       /\ \A id \in DOMAIN policy_cache :
            id \in DOMAIN policy_cache' /\ policy_cache'[id] = policy_cache[id]]_vars

\* C32: request_times changes only in a step of the thread that holds
\* self.lock (or takes it in that step); a thread is between its prune and its
\* append exactly while it holds the lock, its wait included; and while a
\* thread holds the lock no other thread prunes or records.
C32_OneWindowUnderTheLock ==
    /\ [](\A t \in Threads : th[t].pc \in {"rl_sleep", "rl_append"} <=> lock = t)
    /\ [][(request_times' # request_times \/ recorded' # recorded) =>
             \E t \in Threads :
                /\ lock = t \/ (lock = NoThread /\ lock' = t)
                /\ th'[t] # th[t]
                /\ \A u \in Threads \ {t} : th'[u] = th[u]]_vars
    /\ [][\A t \in Threads :
             (lock = t /\ th[t].pc = "rl_sleep") =>
                (request_times' = request_times /\ recorded' = recorded /\ lock' = t)]_vars

\* a thread sleeps for a slot with the lock while another thread waits for
\* the lock
C32_Witness ==
    \E t, u \in Threads :
        /\ t # u
        /\ lock = t
        /\ th[t].pc = "rl_sleep"
        /\ th[u].pc = "rl_lock"
        /\ Len(request_times) >= max_requests_per_minute

InRateLimit(t) == th[t].pc \in {"rl_lock", "rl_sleep", "rl_append"}

\* C39: with max_requests_per_minute >= 1 every call of _wait_for_rate_limit
\* returns: a thread that waits for the lock or sleeps for a slot eventually
\* records its timestamp and leaves, whatever the other threads do.
C39_RateLimitReturns ==
    \A t \in Threads :
        (max_requests_per_minute >= 1 /\ InRateLimit(t)) ~> (th[t].pc = "after_rl")

\* a thread left the rate limiter after the window had been full, while
\* another thread was waiting for the lock
C39_Witness ==
    \E t, u \in Threads :
        /\ t # u
        /\ th[t].pc = "after_rl"
        /\ th[u].pc = "rl_lock"
        /\ Len(recorded) > max_requests_per_minute
        /\ now >= Window

(***************************************************************************)
(* Properties of BatchProcessor, checked under SpecBatch.                  *)
(***************************************************************************)
\* process_directory has returned the statistics
Completed == bpc = "done" /\ "error" \notin DOMAIN returned

\* C5: when process_directory completes on a directory with N immediate files,
\* the statistics it returns have total_files = N and
\* processed_files + len(errors) = N, for every worker count >= 1 and every
\* interleaving of the pool threads.
C5_StatsAddUp ==
    Completed =>
        /\ max_workers >= 1
        /\ returned.total_files = dir_files
        /\ returned.processed_files + Len(returned.errors) = dir_files

\* a directory of several files was processed by several workers, with files
\* counted on both sides
C5_Witness ==
    /\ Completed
    /\ dir_files >= 2
    /\ max_workers >= 2
    /\ returned.processed_files >= 1
    /\ Len(returned.errors) >= 1

\* the pipeline of file f ended in a fault: an exception, or an outcome that
\* carries an error
Faulted(f) == fate[f].kind = "raise" \/ (fate[f].kind = "ok" /\ "error" \in DOMAIN fate[f].val)
LabelOf(f) == fate[f].val.classification
ErrorsFor(st, f) == {i \in 1..Len(st.errors) : st.errors[i].file = f}

\* C6: a fault in one file's pipeline becomes exactly one {file, error} entry
\* of errors and never raises out of process_directory; every other file is
\* counted in processed_files, under the label its own pipeline decided,
\* whatever happened to the rest of the batch.
C6_FaultsAreContained ==
    /\ bpc = "raised" => max_workers <= 0
    /\ Completed =>
        /\ \A f \in 1..dir_files :
              Cardinality(ErrorsFor(returned, f)) = IF Faulted(f) THEN 1 ELSE 0
        /\ \A i \in 1..Len(returned.errors) :
              DOMAIN returned.errors[i] = {"file", "error"}
        /\ returned.processed_files =
              Cardinality({f \in 1..dir_files : ~Faulted(f)})
        /\ DOMAIN returned.classification_results \subseteq Labels
        /\ \A l \in Labels :
              Get(returned.classification_results, l, 0) =
                  Cardinality({f \in 1..dir_files : ~Faulted(f) /\ LabelOf(f) = l})

\* one file's pipeline raised, another file of the batch was classified A
C6_Witness ==
    /\ Completed
    /\ \E f, g \in 1..dir_files :
          /\ fate[f].kind = "raise"
          /\ ErrorsFor(returned, f) # {}
          /\ ~Faulted(g)
          /\ LabelOf(g) = "A"
          /\ Get(returned.classification_results, "A", 0) >= 1

\* the items put by the workers so far
RECURSIVE SumPuts(_)
SumPuts(n) == IF n = 0 THEN 0 ELSE puts[n] + SumPuts(n - 1)

\* C13: for every file dispatched by process_directory its worker puts exactly
\* one item on results_queue, the pipeline's outcome or an {error, file} record;
\* no step of a worker changes stats, which only the collector changes.
C13_OnePutPerFileAndCollectorOwnsStats ==
    /\ [](\A f \in Files : puts[f] <= 1 /\ (puts[f] = 1 <=> fate[f] # NoFate))
    /\ [](Len(results_queue) + processed_count = SumPuts(MaxFiles))
    /\ [](Completed => \A f \in Files : puts[f] = IF f <= dir_files THEN 1 ELSE 0)
    /\ [][\A w \in Workers :
            (running[w] # NoFile /\ running'[w] = NoFile) =>
                LET f == running[w]
                    item == results_queue'[Len(results_queue')]
                IN  /\ results_queue' = Append(results_queue, item)
                    /\ item.file = f
                    /\ IF fate'[f].kind = "raise"
                       THEN DOMAIN item = {"error", "file"}
                       ELSE item = fate'[f].val]_vars
    /\ [][(running' # running) => stats' = stats]_vars

\* a batch of several files completed with one item put per file, one of them
\* the {error, file} record of a pipeline that raised
C13_Witness ==
    /\ Completed
    /\ dir_files >= 2
    /\ max_workers >= 2
    /\ \A f \in 1..dir_files : puts[f] = 1
    /\ \E f, g \in 1..dir_files : fate[f].kind = "raise" /\ fate[g].kind = "ok"

\* C14: called on a path that does not exist or is no directory,
\* process_directory returns {"error": ...} without raising, submits nothing
\* to the pool and leaves stats as it was.
C14_MissingDirectoryIsReported ==
    /\ [](~dir_ok =>
            /\ bpc \in {"start", "done"}
            /\ stats = NewStats
            /\ pending = <<>>
            /\ \A w \in Workers : running[w] = NoFile
            /\ \A f \in Files : puts[f] = 0
            /\ bpc = "done" => DOMAIN returned = {"error"})
    /\ [][(~dir_ok /\ bpc = "start") => (bpc' = "done" /\ stats' = stats)]_vars

\* the call returned the error for a missing directory, whatever max_workers is
C14_Witness ==
    /\ ~dir_ok
    /\ bpc = "done"
    /\ "error" \in DOMAIN returned
    /\ max_workers = 0
    /\ stats = NewStats

\* C26: a process_directory call with max_workers <= 0 on an existing
\* directory fails by raising, and no file was submitted to the pool, run by a
\* worker, put on the queue or counted.
C26_BadWorkerCountFailsFirst ==
    (max_workers <= 0 /\ dir_ok) =>
        /\ bpc \in {"start", "raised"}
        /\ pending = <<>>
        /\ \A w \in Workers : running[w] = NoFile
        /\ \A f \in Files : fate[f] = NoFate /\ puts[f] = 0
        /\ results_queue = <<>>
        /\ processed_count = 0
        /\ stats.processed_files = 0 /\ stats.errors = <<>>

\* the call failed on a directory that holds files
C26_Witness ==
    /\ max_workers <= 0
    /\ dir_files > 0
    /\ bpc = "raised"

\* the files that a pool thread is running
Busy == {w \in Workers : running[w] # NoFile}

\* C27: when every pipeline terminates, process_directory eventually returns
\* (or has failed on a bad worker count); while it collects, every result it
\* still waits for is queued or will be put by a submitted or running worker;
\* and it returns the statistics only after one result per enumerated file was
\* taken from the queue and every worker has finished.
C27_ReturnsAfterAllResults ==
    /\ <>(bpc = "done" \/ (bpc = "raised" /\ max_workers <= 0))
    /\ [](bpc = "collect" =>
            processed_count + Len(results_queue) + Len(pending) + Cardinality(Busy)
                = Len(all_files))
    /\ []((bpc = "done" /\ dir_ok) =>
            /\ processed_count = dir_files
            /\ Len(all_files) = dir_files
            /\ \A f \in 1..dir_files : puts[f] = 1
            /\ results_queue = <<>>
            /\ pending = <<>>
            /\ Busy = {})

\* the call returned after MaxFiles results, one of them from a pipeline that
\* raised
C27_Witness ==
    /\ bpc = "done"
    /\ dir_ok
    /\ processed_count = MaxFiles
    /\ \E f \in Files : fate[f] = Raised

\* how often file f is waiting in the pool's queue
TimesPending(f) == Cardinality({i \in 1..Len(pending) : pending[i] = f})

\* C33: at most max_workers pipelines execute at any moment, and every
\* enumerated file is submitted exactly once: after the submission it is
\* waiting in the pool, running on one thread, or done, and never two of these.
C33_BoundedPoolSubmitsOnce ==
    /\ Cardinality(Busy) <= (IF max_workers > 0 THEN max_workers ELSE 0)
    /\ bpc \in {"collect", "done"} /\ dir_ok =>
          /\ Len(all_files) = dir_files
          /\ \A f \in Files :
                TimesPending(f) + Cardinality({w \in Workers : running[w] = f})
                    + (IF fate[f] = NoFate THEN 0 ELSE 1)
                    = (IF f <= dir_files THEN 1 ELSE 0)

\* the one thread of the pool is busy and files wait for it, while the model
\* has a second thread that the pool does not use
C33_Witness ==
    /\ max_workers = 1
    /\ MaxWorkers > 1
    /\ Cardinality(Busy) = 1
    /\ Len(pending) >= 1
    /\ \E f \in Files : fate[f] # NoFate

\* the files of the latest call whose result was counted as processed
ProcessedNow == {f \in Files : fate[f].kind = "ok" /\ "error" \notin DOMAIN fate[f].val}

\* C36: the statistics that a process_directory call returns account for the
\* files of that call only, also when the instance was used before:
\* processed_files is the number of its files that were processed, and
\* processed_files + len(errors) = total_files.
C36_StatsArePerRun ==
    Completed =>
        /\ returned.processed_files = Cardinality(ProcessedNow)
        /\ returned.processed_files + Len(returned.errors) = returned.total_files

\* the outcome of a file whose read failed or whose text is empty
IsUnknown(res) == Get(res, "classification", "none") = "unknown"

\* C37: the collector counts an outcome with classification "unknown" in
\* errors and not in processed_files, and classification_results never has
\* the label "unknown".
C37_UnknownIsAnError ==
    /\ []("unknown" \notin DOMAIN stats.classification_results)
    /\ [][(bpc = "collect" /\ processed_count' = processed_count + 1
              /\ IsUnknown(Head(results_queue))) =>
             /\ stats'.processed_files = stats.processed_files
             /\ stats'.classification_results = stats.classification_results
             /\ Len(stats'.errors) = Len(stats.errors) + 1
             /\ stats'.errors[Len(stats'.errors)].error = Head(results_queue).error]_vars

\* the call returned with an unreadable file among its errors and another
\* file processed
C37_Witness ==
    /\ Completed
    /\ \E f \in Files : fate[f].kind = "ok" /\ IsUnknown(fate[f].val)
    /\ Len(returned.errors) >= 1
    /\ returned.processed_files >= 1

\* the sum of the counts of a tally
RECURSIVE SumCounts(_, _)
SumCounts(tally, labels) ==
    IF labels = {} THEN 0
    ELSE LET l == CHOOSE x \in labels : TRUE
         IN  tally[l] + SumCounts(tally, labels \ {l})

\* C38: in every state of a process_directory call, between the steps of the
\* collector loop and at return, the counts of classification_results add up
\* to processed_files, in the instance's statistics and in what is returned.
C38_TallyAddsUp ==
    /\ SumCounts(stats.classification_results, DOMAIN stats.classification_results)
          = stats.processed_files
    /\ \A l \in DOMAIN stats.classification_results : stats.classification_results[l] >= 1
    /\ Completed =>
          SumCounts(returned.classification_results, DOMAIN returned.classification_results)
              = returned.processed_files

\* a later call on the instance returned with files under two labels, more
\* of them than its directory holds
C38_Witness ==
    /\ Completed
    /\ Cardinality(DOMAIN returned.classification_results) >= 2
    /\ returned.processed_files > dir_files
    /\ dir_files >= 1

(***************************************************************************)
(* Properties of the factories, checked under SpecDispatch.                *)
(***************************************************************************)
Called == reader_out # "none" /\ tagger_out # "none"

\* C21: get_reader and get_tagger raise FileNotFoundError exactly when the path
\* does not exist; for an existing path, an empty file and a file that cannot
\* be opened included, they return a reader or a tagger.
C21_RaiseIffMissing ==
    /\ reader_out # "none" =>
          IF path.exists THEN reader_out \in {"TextReader", "PdfReader", "OfficeReader"}
          ELSE reader_out = "FileNotFoundError"
    /\ tagger_out # "none" =>
          IF path.exists THEN tagger_out \in {"TextTagger", "PdfTagger", "OfficeTagger"}
          ELSE tagger_out = "FileNotFoundError"

\* a tagger was returned for an empty file of unknown type and for one that
\* cannot be opened
C21_Witness ==
    /\ Called
    /\ path.exists
    /\ path.ext = ".dat"
    /\ path.content = <<>> \/ ~path.openable
    /\ tagger_out = "OfficeTagger"

\* the category of a reader or tagger
CategoryOf(out) ==
    CASE out \in {"TextReader", "TextTagger"} -> "text"
      [] out \in {"PdfReader", "PdfTagger"} -> "pdf"
      [] out \in {"OfficeReader", "OfficeTagger"} -> "office"
      [] OTHER -> "none"

\* the first category, in the order text, PDF, Office, that the suffix or the
\* MIME type of the path matches
FirstCategory ==
    LET mime == MimeOf(path.ext)
    IN  IF TaggerIsText(path.ext, mime) THEN "text"
        ELSE IF IsPdf(path.ext, mime) THEN "pdf"
        ELSE IF TaggerIsOffice(path.ext, mime) THEN "office"
        ELSE "none"

\* C22: for an existing file whose suffix or MIME type matches a category,
\* get_reader and get_tagger both return the capability of the first matching
\* category in the order text, PDF, Office.
C22_SameFirstCategory ==
    (Called /\ path.exists /\ FirstCategory # "none") =>
        /\ CategoryOf(tagger_out) = FirstCategory
        /\ CategoryOf(reader_out) = FirstCategory

\* the sample of the first 512 bytes is text: more than 0.8 of it is printable
SampleIsText ==
    LET header == Header(path.content)
    IN  /\ path.openable
        /\ Len(header) > 0
        /\ 5 * Len(SelectSeq(header, IsPrintable)) > 4 * Len(header)

\* C23: for an existing file that matches no category, get_reader and
\* get_tagger return the text capability if and only if more than 0.8 of the
\* sampled bytes are printable, and the Office capability otherwise.
C23_SniffDecides ==
    (Called /\ path.exists /\ FirstCategory = "none") =>
        /\ CategoryOf(tagger_out) = IF SampleIsText THEN "text" ELSE "office"
        /\ CategoryOf(reader_out) = IF SampleIsText THEN "text" ELSE "office"

(***************************************************************************)
(* Properties of the taggers, checked under SpecTagger.                    *)
(***************************************************************************)
InAttempted(strategy) == \E i \in 1..Len(attempted) : attempted[i].strategy = strategy

\* C24: when OfficeTagger.tag_document returns False for an existing file
\* after its primary strategy (the OOXML rewrite or the Office automation)
\* failed, the fallback chain _tag_with_multiple_methods was attempted.
C24_FallbackBeforeFalse ==
    (/\ tagger = "OfficeTagger"
     /\ tfile.exists
     /\ tag_ret = "False"
     /\ InAttempted("office_document") \/ InAttempted("office_app"))
        => InAttempted("multiple_methods")

\* C25: when tag_document has returned, True or False, no temporary file or
\* directory that the call created exists.
C25_NoTempsAfterReturn == tag_ret # "none" => temps = {}

\* the strategies of TextTagger.tag_document for the document, in order
TextChain ==
    (IF sys_platform = "win32" THEN <<"ads">> ELSE <<>>)
        \o <<"metadata_file">>
        \o (IF tfile.ext \in {".py"} THEN <<"comments">> ELSE <<>>)
        \o <<"binary_marker">>

\* C34: TextTagger.tag_document runs its strategies in the order alternate
\* data stream (win32 only), metadata file, comment header (code suffixes
\* only), binary marker; none runs after one that succeeded; it returns True
\* exactly when the last one it ran succeeded, and False, never an exception,
\* when all of them failed.
C34_TextStrategiesInOrder ==
    tagger = "TextTagger" =>
        /\ Len(attempted) <= Len(TextChain)
        /\ \A i \in 1..Len(attempted) : attempted[i].strategy = TextChain[i]
        /\ \A i \in 1..(Len(attempted) - 1) : ~attempted[i].ok
        /\ tgpc = "done" <=> tag_ret \in {"True", "False"}
        /\ tag_ret = "True" <=> (attempted # <<>> /\ attempted[Len(attempted)].ok)
        /\ (tag_ret = "False" /\ tfile.exists) => Len(attempted) = Len(TextChain)

\* on win32 a code file was tagged by the binary marker after the three
\* strategies before it had failed
C34_Witness ==
    /\ tagger = "TextTagger"
    /\ tag_ret = "True"
    /\ Len(attempted) = 4
    /\ attempted[4] = Try("binary_marker", TRUE)

(***************************************************************************)
(* Properties of TextTagger's metadata file, checked under SpecMeta.       *)
(***************************************************************************)
\* C11: the tag written by _tag_with_metadata_file and parsed again by the
\* retrieval path of lines 92-100 is the pair that was written: the dict read
\* back maps tag_name to tag_value, and holds nothing else when the metadata
\* file did not exist before.
C11_RoundTrip ==
    mpc = "read" =>
        /\ KeyIndex(meta_dict, tag_name, 1) # 0
        /\ meta_dict[KeyIndex(meta_dict, tag_name, 1)][2] = tag_value
        /\ Len(meta_dict) <= 2

(***************************************************************************)
(* Properties of process_file, checked under SpecFile.  What the service   *)
(* answered is read from the history variable trace, not from the locals.  *)
(***************************************************************************)
\* the classify_text calls made so far, in call order
ClassifyEvents == SelectSeq(trace, LAMBDA e : e.call = "classify_text")

\* the answer of this call yields a FileMatch
Produces(e) ==
    /\ e.out.kind = "ok"
    /\ e.out.val.totalMatches > 0
    /\ e.out.val.matches # <<>>

\* the calls that yielded a FileMatch, in policy order
Hits == SelectSeq(ClassifyEvents, Produces)

\* the largest confidence among the matches of one answer
TopConfidence(e) ==
    LET ms == e.out.val.matches
    IN CHOOSE c \in {ms[i].confidence : i \in 1..Len(ms)} :
          \A i \in 1..Len(ms) : c >= ms[i].confidence

\* the name of the policy a call was made for
NameOf(e) ==
    LET i == CHOOSE i \in 1..Len(policies) : policies[i].id = e.arg IN policies[i].name

\* the classification stage is over: result carries its matches
EngineDone == "matches" \in DOMAIN result

LastEvent == trace[Len(trace)]

OneMatch(c) == Ok([totalMatches |-> 1, matches |-> <<Match("m1", c)>>])

\* C7: the policies are tried in the supplied order; best-match mode yields the
\* policy name and confidence of a FileMatch of highest confidence over all
\* policies, first-match mode those of the first policy that produced one.
\* For [A 0.9, B 0.95] that is B/0.95 and A/0.9.
C7_Selection ==
    /\ \A k \in 1..Len(ClassifyEvents) : ClassifyEvents[k].arg = policies[k].id
    /\ (EngineDone /\ Hits # <<>>) =>
          IF use_first_match
          THEN /\ result.classification = NameOf(Hits[1])
               /\ result.confidence = TopConfidence(Hits[1])
          ELSE \E i \in 1..Len(Hits) :
                  /\ \A j \in 1..Len(Hits) : TopConfidence(Hits[i]) >= TopConfidence(Hits[j])
                  /\ result.classification = NameOf(Hits[i])
                  /\ result.confidence = TopConfidence(Hits[i])
    /\ (EngineDone /\ Len(ClassifyEvents) >= 1 /\ ClassifyEvents[1].out = OneMatch(90)
          /\ policies[1].name = "A" /\ use_first_match) =>
          (result.classification = "A" /\ result.confidence = 90)
    /\ (EngineDone /\ Len(ClassifyEvents) = 2 /\ ClassifyEvents[1].out = OneMatch(90)
          /\ ClassifyEvents[2].out = OneMatch(95) /\ policies[2].name = "B"
          /\ ~use_first_match) =>
          (result.classification = "B" /\ result.confidence = 95)

\* process_file has returned B/0.95 for [A 0.9, B 0.95] in best-match mode
C7_Witness ==
    /\ fpc = "returned"
    /\ EngineDone
    /\ ~use_first_match
    /\ Len(ClassifyEvents) = 2
    /\ ClassifyEvents[1].out = OneMatch(90)
    /\ ClassifyEvents[2].out = OneMatch(95)
    /\ result.classification = "B"
    /\ result.confidence = 95

\* C8: when no policy produced a FileMatch for a file with non-empty text, the
\* classification is "safe" and the outcome has no confidence (the key is absent:
\* a null field), in both selection modes.
C8_NoMatchIsSafe ==
    (EngineDone /\ Hits = <<>>) =>
        /\ result.classification = "safe"
        /\ "confidence" \notin DOMAIN result
        /\ result.matches = <<>>

\* process_file has returned "safe" after two policies answered without a match
C8_Witness ==
    /\ fpc = "returned"
    /\ EngineDone
    /\ Len(ClassifyEvents) = 2
    /\ Hits = <<>>
    /\ result.classification = "safe"
    /\ "tagged" \in DOMAIN result

\* tag_document was called and returned False
TagReturnedFalse ==
    /\ trace # <<>>
    /\ LastEvent.call = "tag_document"
    /\ LastEvent.out.val = FALSE

\* C9: when tag_document returns False the returned outcome still carries the
\* classification and confidence computed before tagging, has tagged = False
\* and has no error field.
C9_TagFalseKeepsClassification ==
    (fpc = "returned" /\ TagReturnedFalse) =>
        /\ "classification" \in DOMAIN result
        /\ result.classification = classification
        /\ IF result.matches # <<>>
           THEN "confidence" \in DOMAIN result /\ result.confidence = confidence
           ELSE "confidence" \notin DOMAIN result
        /\ result.tagged = FALSE
        /\ "error" \notin DOMAIN result

\* the file is there, it matched a policy, and tag_document returned False
C9_Witness ==
    /\ fpc = "returned"
    /\ TagReturnedFalse
    /\ exists
    /\ result.classification = "A"
    /\ result.confidence = 95
    /\ result.tagged = FALSE

\* tagging failed: get_tagger raised, or tag_document returned False
TaggingFailed ==
    /\ trace # <<>>
    /\ \/ LastEvent.call = "get_tagger" /\ LastEvent.out.kind = "raise"
       \/ TagReturnedFalse

\* C10: a tagging failure of any kind, a fault raised by get_tagger included, is
\* recorded as tagged = False and leaves the outcome without error, with the
\* classification already computed.
C10_TaggingFailureIsSoft ==
    (fpc = "returned" /\ TaggingFailed) =>
        /\ "error" \notin DOMAIN result
        /\ "tagged" \in DOMAIN result /\ result.tagged = FALSE
        /\ "classification" \in DOMAIN result /\ result.classification = classification

\* the returned outcome is classified "safe"
IsSafe == "classification" \in DOMAIN result /\ result.classification = "safe"

\* C12 as stated: every returned outcome is "safe" exactly when no FileMatch was
\* produced for the file.
C12_SafeIffNoMatch == fpc = "returned" => (IsSafe <=> Hits = <<>>)

\* C12: a returned outcome that went through the classification stage is
\* "safe" exactly when no FileMatch was produced, and then its matches are
\* empty; an outcome that did not (unreadable or empty document, fault) is
\* never "safe": it carries an error, with classification "unknown" or none.
C12_SafeIffNoMatchWhenClassified ==
    fpc = "returned" =>
        /\ EngineDone => /\ IsSafe <=> Hits = <<>>
                         /\ result.matches = <<>> <=> Hits = <<>>
        /\ ~EngineDone => /\ ~IsSafe
                          /\ "error" \in DOMAIN result
                          /\ Get(result, "classification", "unknown") = "unknown"

\* a "safe" outcome was returned for a file whose only policy call failed
C12_Witness ==
    /\ fpc = "returned"
    /\ EngineDone
    /\ IsSafe
    /\ Len(ClassifyEvents) = 1
    /\ ClassifyEvents[1].out.kind = "raise"

\* some call made by process_file raised
AnyFailure == \E i \in 1..Len(trace) : trace[i].out.kind = "raise"

\* C15: process_file never raises to its caller, and whenever a step failed
\* (file missing, reader fault, policy fetch, classification, tagger fault) the
\* returned outcome has its error field set.
C15_NeverRaises ==
    /\ fpc # "raised"
    /\ (fpc = "returned" /\ AnyFailure) => "error" \in DOMAIN result

\* the classify_text calls that raised
Failures == SelectSeq(ClassifyEvents, LAMBDA e : e.out.kind = "raise")

\* the FileMatch that a call yielded is m
IsMatchOf(e, m) ==
    /\ m.policy_id = e.arg
    /\ m.policy_name = NameOf(e)
    /\ m.confidence = TopConfidence(e)

\* C16: a classify_text call that fails does not end the policy loop: the
\* remaining policies are called in order (up to the first-match stop), no
\* error is put in the outcome, and matches and classification come from the
\* calls that yielded a FileMatch, as if the failed call had yielded none.
C16_FailingPolicyIsSkipped ==
    /\ [](\A k \in 1..Len(ClassifyEvents) : ClassifyEvents[k].arg = policies[k].id)
    /\ [](EngineDone =>
            /\ \/ Len(ClassifyEvents) = Len(policies)
               \/ use_first_match /\ Produces(ClassifyEvents[Len(ClassifyEvents)])
            /\ Len(result.matches) = IF use_first_match /\ Hits # <<>> THEN 1 ELSE Len(Hits)
            /\ \A i \in 1..Len(result.matches) :
                  \E j \in 1..Len(Hits) : IsMatchOf(Hits[j], result.matches[i])
            /\ \A j \in 1..Len(Hits) :
                  \E i \in 1..Len(result.matches) :
                     use_first_match \/ IsMatchOf(Hits[j], result.matches[i])
            /\ result.classification =
                  IF Hits = <<>> THEN "safe" ELSE result.matches[1].policy_name)
    /\ [][(fpc = "classify" /\ Len(Failures') > Len(Failures)) =>
            /\ fpc' = "classify"
            /\ idx' = idx + 1
            /\ all_matches' = all_matches
            /\ result' = result]_vars

\* the call for the first policy failed, the second policy was still called and
\* decided the classification
C16_Witness ==
    /\ fpc = "returned"
    /\ EngineDone
    /\ Len(ClassifyEvents) = 2
    /\ ClassifyEvents[1].out.kind = "raise"
    /\ ClassifyEvents[2].out = OneMatch(95)
    /\ result.classification = "B"
    /\ result.confidence = 95

\* C17: every failure (a classify_text call that raised, a read failure, a
\* policy-fetch failure, a tagger fault) leaves an error string in the outcome
\* that process_file returns; a tag_document that returned False is recorded as
\* tagged = False.
C17_EveryFailureIsRecorded ==
    fpc = "returned" =>
        /\ AnyFailure => "error" \in DOMAIN result
        /\ TagReturnedFalse => result.tagged = FALSE

\* read_document returned a text that is empty once stripped
ReadEmptyAt(i) ==
    /\ trace[i].call = "read_document"
    /\ trace[i].out.kind = "ok"
    /\ Len(strip(trace[i].out.val)) = 0

\* C18: when the text read from the file is empty or whitespace-only,
\* process_file returns classification "unknown" with an error and calls
\* neither get_policies nor classify_text nor the tagger for that file.
C18_EmptyTextShortCircuits ==
    \A i \in 1..Len(trace) :
        ReadEmptyAt(i) =>
            /\ i = Len(trace)
            /\ fpc = "returned"
            /\ result.classification = "unknown"
            /\ "error" \in DOMAIN result
            /\ "tagged" \notin DOMAIN result
            /\ "matches" \notin DOMAIN result

\* a whitespace-only text was read and "unknown" was returned
C18_Witness ==
    /\ fpc = "returned"
    /\ trace # <<>>
    /\ ReadEmptyAt(Len(trace))
    /\ LastEvent.out.val = <<" ">>
    /\ result.classification = "unknown"

\* the place of a policy in the supplied list
PlaceOf(id) == CHOOSE i \in 1..Len(policies) : policies[i].id = id

\* C28: in first-match mode the policies are called once each in the
\* supplied order, no call is made after one that yielded a FileMatch, and
\* the outcome's matches is exactly the FileMatch of that call.
C28_FirstMatchStops ==
    use_first_match =>
        /\ \A k \in 1..Len(ClassifyEvents) : ClassifyEvents[k].arg = policies[k].id
        /\ \A k \in 1..Len(ClassifyEvents) - 1 : ~Produces(ClassifyEvents[k])
        /\ (EngineDone /\ Hits # <<>>) =>
              /\ Len(result.matches) = 1
              /\ result.matches_count = 1
              /\ IsMatchOf(ClassifyEvents[Len(ClassifyEvents)], result.matches[1])

\* a policy yielded a FileMatch and the last policy of the list was never
\* called
C28_Witness ==
    /\ use_first_match
    /\ fpc = "returned"
    /\ EngineDone
    /\ Len(policies) = MaxPolicies
    /\ Len(ClassifyEvents) = MaxPolicies - 1
    /\ Hits # <<>>

\* C29: in best-match mode every policy is called once in the supplied
\* order; the returned matches are the FileMatches of the calls, ordered by
\* confidence descending with equal confidences in policy order; the
\* classification is the policy name of the first, so on a tie of the highest
\* confidence the earliest policy wins.
C29_BestMatchStableOrder ==
    ~use_first_match =>
        /\ \A k \in 1..Len(ClassifyEvents) : ClassifyEvents[k].arg = policies[k].id
        /\ EngineDone =>
              LET ms == result.matches
              IN  /\ Len(ClassifyEvents) = Len(policies)
                  /\ Len(ms) = Len(Hits)
                  /\ \A j \in 1..Len(Hits) : \E i \in 1..Len(ms) : IsMatchOf(Hits[j], ms[i])
                  /\ \A i, j \in 1..Len(ms) :
                        i < j => \/ ms[i].confidence > ms[j].confidence
                                 \/ /\ ms[i].confidence = ms[j].confidence
                                    /\ PlaceOf(ms[i].policy_id) < PlaceOf(ms[j].policy_id)
                  /\ Hits # <<>> =>
                        /\ result.classification = ms[1].policy_name
                        /\ \A j \in 1..Len(Hits) :
                              \/ TopConfidence(Hits[j]) < ms[1].confidence
                              \/ PlaceOf(Hits[j].arg) >= PlaceOf(ms[1].policy_id)

\* two policies matched with the same confidence and the first one was chosen
C29_Witness ==
    /\ ~use_first_match
    /\ fpc = "returned"
    /\ EngineDone
    /\ Len(Hits) = 2
    /\ TopConfidence(Hits[1]) = TopConfidence(Hits[2])
    /\ result.classification = NameOf(Hits[1])
    /\ result.matches[1].policy_id = Hits[1].arg

\* what one turn of the policy loop appended to all_matches for the call e:
\* one FileMatch holding the first match of maximum confidence and
\* total_matches = totalMatches
AppendsFileMatch(e) ==
    LET res == e.out.val
        ms == res.matches
    IN  \E i \in 1..Len(ms) :
          /\ \A j \in 1..Len(ms) : ms[i].confidence >= ms[j].confidence
          /\ \A j \in 1..(i - 1) : ms[j].confidence < ms[i].confidence
          /\ all_matches' = Append(all_matches,
                 [policy_id |-> e.arg, policy_name |-> NameOf(e),
                  match_id |-> ms[i].id, match_name |-> ms[i].name,
                  confidence |-> ms[i].confidence, total_matches |-> res.totalMatches])

PolicyTurn == fpc = "classify" /\ Len(trace') = Len(trace) + 1

\* C30 as stated: every call that succeeds with totalMatches > 0 appends
\* exactly one FileMatch (first match of maximum confidence, total_matches =
\* totalMatches); a call with totalMatches = 0 or a failed call appends none.
C30_OneFileMatchPerPositiveAnswer ==
    [][PolicyTurn =>
         LET e == trace'[Len(trace')]
         IN  IF e.out.kind = "ok" /\ e.out.val.totalMatches > 0
             THEN AppendsFileMatch(e)
             ELSE all_matches' = all_matches]_vars

\* C30: every call that succeeds with totalMatches > 0 and a non-empty
\* matches list appends exactly one FileMatch (first match of maximum
\* confidence, total_matches = totalMatches); a failed call, a call with
\* totalMatches = 0 and a call with totalMatches > 0 but no match appends none.
C30_OneFileMatchPerMatchingAnswer ==
    [][PolicyTurn =>
         LET e == trace'[Len(trace')]
         IN  IF e.out.kind = "ok" /\ e.out.val.totalMatches > 0 /\ e.out.val.matches # <<>>
             THEN AppendsFileMatch(e)
             ELSE all_matches' = all_matches]_vars

\* the answer held two matches of the same, highest confidence and the
\* FileMatch appended for it is the first of them
C30_Witness ==
    /\ fpc = "classify"
    /\ trace # <<>>
    /\ LastEvent.call = "classify_text"
    /\ LastEvent.out = Ok([totalMatches |-> 2,
                           matches |-> <<Match("m1", 95), Match("m2", 95)>>])
    /\ all_matches # <<>>
    /\ all_matches[Len(all_matches)].match_id = "m1"
    /\ all_matches[Len(all_matches)].total_matches = 2
    /\ all_matches[Len(all_matches)].policy_id = LastEvent.arg

\* the places in trace of the calls of one kind
PlacesOf(call) == {i \in 1..Len(trace) : trace[i].call = call}

\* C31: tag_document is called at most once, after every classify_text call
\* and after the classification was determined, with the classification that
\* the outcome reports ("safe" included); with no_tag no tagger is resolved or
\* called and the outcome says tagged = False.
C31_TagOnceWithClassification ==
    /\ Cardinality(PlacesOf("tag_document")) <= 1
    /\ \A i \in PlacesOf("tag_document") :
          /\ EngineDone
          /\ \A j \in PlacesOf("classify_text") \cup PlacesOf("get_tagger") : j < i
          /\ trace[i].arg = result.classification
          /\ fpc = "returned"
    /\ no_tag => PlacesOf("tag_document") \cup PlacesOf("get_tagger") = {}
    /\ (no_tag /\ fpc = "returned" /\ EngineDone) => result.tagged = FALSE

\* a file without a match was tagged "safe"
C31_Witness ==
    /\ fpc = "returned"
    /\ ~no_tag
    /\ PlacesOf("tag_document") # {}
    /\ PlacesOf("classify_text") # {}
    /\ LastEvent.arg = "safe"
    /\ result.classification = "safe"
    /\ result.tagged = TRUE

\* the call succeeded and reported no match
CleanAnswer(e) == e.out.kind = "ok" /\ e.out.val.totalMatches = 0

\* C35: an outcome is "safe" only if classify_text was called for every policy
\* of the list and each call succeeded with zero matches; an outcome of a file
\* with a failed policy call is not "safe" unless it carries an error.
C35_SafeOnlyWhenEveryPolicyAnswered ==
    IsSafe =>
        /\ Len(ClassifyEvents) = Len(policies)
        /\ \A k \in 1..Len(ClassifyEvents) : CleanAnswer(ClassifyEvents[k])
        /\ Failures # <<>> => "error" \in DOMAIN result

\* the answers that the classify_text calls of the run received, by policy
Answers == [k \in 1..Len(ClassifyEvents) |-> ClassifyEvents[k].out]

\* what lines 68-131 decide in one mode for the answers of the run
Decision(first) == Classified([file |-> FileName], PolicyLoop(policies, Answers, first), first)

\* C40: for the same policy list and the same answers of the service,
\* first-match mode and best-match mode decide "safe" in the same cases, and
\* the same classification and confidence when at most one policy yields a
\* FileMatch.  Checked on the runs in best-match mode, where every policy was
\* asked; the decision of each mode is also the one that the run in that mode
\* returned.
C40_ModesAgree ==
    EngineDone =>
        /\ Decision(use_first_match).classification = result.classification
        /\ Decision(use_first_match).matches = result.matches
        /\ ~use_first_match =>
              /\ Decision(TRUE).classification = "safe"
                    <=> Decision(FALSE).classification = "safe"
              /\ Len(Hits) <= 1 =>
                    /\ Decision(TRUE).classification = Decision(FALSE).classification
                    /\ Get(Decision(TRUE), "confidence", "none")
                          = Get(Decision(FALSE), "confidence", "none")
                    /\ Decision(TRUE).matches = Decision(FALSE).matches

\* the only FileMatch came from the last policy after a policy without a
\* match, and the run in best-match mode returned it
C40_Witness ==
    /\ fpc = "returned"
    /\ EngineDone
    /\ ~use_first_match
    /\ Len(ClassifyEvents) = MaxPolicies
    /\ Len(Hits) = 1
    /\ ~Produces(ClassifyEvents[1])
    /\ result.classification = NameOf(Hits[1])
    /\ result.classification = Decision(TRUE).classification

====
